---- MODULE Spec2Model ----
(***************************************************************************)
(* Model of the download-orchestration core of YouTube-Downloader-GUI:     *)
(*   - DownloadThread (download_thread.py): the worker thread that drives  *)
(*     yt-dlp subprocesses in single, date and range mode, with the stop   *)
(*     flag and the process handle guarded by a mutex;                     *)
(*   - MainWindow (main_window.py): start_download, stop_download and the  *)
(*     handlers of the download_complete / download_error signals;         *)
(*   - build_format_spec (utils.py), YtDlpCommandBuilder.with_format       *)
(*     (command_builder.py) and the -f value of download_video.            *)
(*                                                                         *)
(* Three specifications share the variables:                               *)
(*   Spec     one DownloadThread run, request_stop() callable at any time; *)
(*   SpecUI   the main window starting and stopping runs;                  *)
(*   SpecFmt  the format resolution functions applied to option sets.      *)
(***************************************************************************)
EXTENDS Integers, Sequences, FiniteSets, TLC

\* ------------------------------------------------------------------------
\* Bounds of the model
\* ------------------------------------------------------------------------
MaxRuns == 2          \* DownloadThread objects the window may create
MaxEntries == 3       \* entries of a flat playlist listing
MaxStart == 3         \* largest 0-based start index offered
MaxCount == 3         \* largest item count offered
MaxLines == 1         \* output lines read from one streamed download
MaxStopCalls == 2     \* calls of request_stop() on one thread
UiMaxEntries == 2     \* entries of a listing, for runs the window starts
UiMaxStart == 0       \* largest 0-based start index the window offers
UiMaxCount == 2       \* largest item count the window offers
UiMaxProcs == 3       \* subprocesses spawned by all runs the window starts

Threads == 1..MaxRuns

\* a single run spawns one listing fetch and, per entry, one info fetch and
\* one download at most: no budget restricts it
MaxProcs == 2 * MaxEntries + 2
Modes == {"single", "date", "range"}

\* Upload dates are fixed-width digit strings (YYYYMMDD in the program),
\* modelled as fixed-width sequences of digits; <<>> is the empty string.
Dates == {<<1, 9>>, <<2, 0>>}

VARIABLES
    \* DownloadThread, one instance per thread id
    pc,                \* position of the worker in run()
    mode,              \* self.mode
    options,           \* self.options (the keys the orchestrator reads)
    stop_requested,    \* self._stop_requested
    current_process,   \* self._current_process (0 = None, else index in procs)
    mutex_locked,      \* self._mutex is held
    playlist_info,     \* playlist_info['entries'] of the run
    entries,           \* the entries the loop iterates over
    idx,               \* loop variable i (0-based)
    downloaded_count,  \* downloaded_count of _download_by_date
    procs,             \* subprocesses spawned by the run, in spawn order
    emitted,           \* download_complete / download_error signals emitted
    stop_calls,        \* number of request_stop() calls made
    stop_entry,        \* listing position being processed at the first stop
    \* MainWindow
    download_thread,   \* self.download_thread (0 = None)
    download_button,   \* download_button.isEnabled()
    stop_button,       \* stop_button.isEnabled()
    status_indicator,  \* state shown by status_indicator
    open_dialogs,      \* modal error dialogs currently open
    ui_wait,           \* thread stop_download is waiting for (0 = not waiting)
    ui_queue,          \* queued signals not yet delivered to the window
    \* format resolution
    fmt_options,       \* option dictionary handed to the resolver
    fmt_result,        \* last resolver call and its result
    \* YtDlpCommandBuilder
    builder,           \* the fragments and the URL the builder has accumulated
    build_result,      \* last builder method called and its outcome
    \* CookieManager
    cookie_manager,    \* use_browser, browser, cookie_file
    environ,           \* LOCALAPPDATA and the paths that exist on disk
    last_set_mode,     \* most recent set_browser_mode / set_file_mode call
    cookie_result,     \* outcome of the last get_cookie_args()
    \* CookieManager.validate_cookie_file
    cookie_file_lines, \* content of the cookie file handed to the validation
    validation_result, \* the result dictionary it returned
    \* DownloadThread._parse_progress_line
    line,              \* the output line handed to the parser
    progress_result,   \* the signals it emitted for that line
    \* OptionsValidator
    val_options,       \* option dictionary handed to the validator
    val_result         \* outcome of validate_all_options

threadVars == <<pc, mode, options, stop_requested, current_process,
                mutex_locked, playlist_info, entries, idx, downloaded_count,
                procs, emitted, stop_calls, stop_entry>>
uiVars == <<download_thread, download_button, stop_button, status_indicator,
            open_dialogs, ui_wait, ui_queue>>
fmtVars == <<fmt_options, fmt_result>>
builderVars == <<builder, build_result>>
cookieVars == <<cookie_manager, environ, last_set_mode, cookie_result>>
cookieFileVars == <<cookie_file_lines, validation_result>>
progressVars == <<line, progress_result>>
validatorVars == <<val_options, val_result>>
unitVars == <<builderVars, cookieVars, cookieFileVars, progressVars,
              validatorVars>>
vars == <<threadVars, uiVars, fmtVars, unitVars>>

\* ------------------------------------------------------------------------
\* Python helpers
\* ------------------------------------------------------------------------
Min(a, b) == IF a <= b THEN a ELSE b
Max(a, b) == IF a >= b THEN a ELSE b

\* dict.get(key, default)
DictGet(d, key, default) == IF key \in DOMAIN d THEN d[key] ELSE default

\* seq[a:b] for non-negative a, b: both ends are clamped to the length
PySlice(seq, a, b) ==
    LET lo == Min(a, Len(seq))
        hi == Max(lo, Min(b, Len(seq)))
    IN  [k \in 1..(hi - lo) |-> seq[lo + k]]

\* lexical comparison x >= y of two strings (sequences of digits)
RECURSIVE StrGE(_, _)
StrGE(x, y) ==
    IF y = <<>> THEN TRUE
    ELSE IF x = <<>> THEN FALSE
    ELSE IF Head(x) # Head(y) THEN Head(x) > Head(y)
    ELSE StrGE(Tail(x), Tail(y))

\* ------------------------------------------------------------------------
\* Format resolution (config.py, utils.py, command_builder.py)
\*
\* The user-facing labels of the program are Chinese strings; the model
\* writes them in ASCII:  "custom" = the custom quality entry,
\* "best_quality" = the best-quality entry, "auto" = automatic container
\* choice, "audio_only" = the audio-only container entry, "best" = the
\* best-audio codec entry.
\* ------------------------------------------------------------------------
None == "<None>"
Truthy(x) == x # None /\ x # ""

\* QUALITY_CONFIG['quality_formats']: [H.264 id, VP9 id, AV1 id]
quality_formats ==
    ("8K"    :> <<"", "313", "401">>) @@
    ("4K"    :> <<"", "313", "401">>) @@
    ("1440p" :> <<"", "271", "400">>) @@
    ("1080p" :> <<"137", "248", "399">>) @@
    ("720p"  :> <<"136", "247", "398">>) @@
    ("480p"  :> <<"135", "244", "397">>) @@
    ("360p"  :> <<"134", "243", "396">>) @@
    ("240p"  :> <<"133", "242", "395">>)

\* QUALITY_CONFIG['audio_formats']
audio_formats ==
    ("best" :> "bestaudio") @@ ("Opus" :> "251/250/249") @@ ("AAC" :> "140")

\* the "auto" branch of build_format_spec: for fmt in [1, 2, 0] (0-based
\* columns VP9, AV1, H.264), first non-empty id; VP9 column if all are empty
\* variant: the columns are tried in table order H.264, VP9, AV1
AutoSelect_table_order(video_formats, audio_format) ==
    IF video_formats[1] # "" THEN video_formats[1] \o "+" \o audio_format
    ELSE IF video_formats[2] # "" THEN video_formats[2] \o "+" \o audio_format
    ELSE video_formats[3] \o "+" \o audio_format

AutoSelect(video_formats, audio_format) ==
    IF video_formats[2] # "" THEN video_formats[2] \o "+" \o audio_format
    ELSE IF video_formats[3] # "" THEN video_formats[3] \o "+" \o audio_format
    ELSE IF video_formats[1] # "" THEN video_formats[1] \o "+" \o audio_format
    ELSE video_formats[2] \o "+" \o audio_format

build_format_spec(quality, format_type, audio_codec) ==
    IF format_type = "audio_only"
    THEN DictGet(audio_formats, audio_codec, "bestaudio")
    ELSE IF quality = "custom"
    THEN "248+251"
    ELSE IF quality = "best_quality" /\ format_type = "auto"
    THEN "bestvideo+bestaudio/best"
    ELSE IF quality = "best_quality" /\ format_type = "MP4 (H.264)"
    THEN "bestvideo[ext=mp4]+"
             \o DictGet(audio_formats, audio_codec, "bestaudio")
             \o "/best[ext=mp4]"
    ELSE IF quality = "best_quality" /\ format_type = "WebM (VP9)"
    THEN "bestvideo[ext=webm]+"
             \o DictGet(audio_formats, audio_codec, "bestaudio")
             \o "/best[ext=webm]"
    ELSE IF quality = "best_quality" /\ format_type = "MP4 (AV1)"
    THEN "bestvideo[vcodec^=av01]+"
             \o DictGet(audio_formats, audio_codec, "bestaudio")
    ELSE IF quality \notin DOMAIN quality_formats
    THEN "248+251"
    ELSE LET video_formats == quality_formats[quality]
             audio_format == DictGet(audio_formats, audio_codec, "251")
         IN  IF format_type = "auto"
             THEN AutoSelect(video_formats, audio_format)
             ELSE IF format_type = "MP4 (H.264)"
             THEN IF video_formats[1] = ""
                  THEN "bestvideo[ext=mp4]+" \o audio_format
                           \o "/best[ext=mp4]"
                  ELSE video_formats[1] \o "+" \o audio_format
             ELSE IF format_type = "WebM (VP9)"
             THEN IF video_formats[2] = ""
                  THEN "bestvideo[ext=webm]+" \o audio_format
                           \o "/best[ext=webm]"
                  ELSE video_formats[2] \o "+" \o audio_format
             ELSE IF format_type = "MP4 (AV1)"
             THEN IF video_formats[3] = ""
                  THEN "bestvideo[vcodec^=av01]+" \o audio_format
                  ELSE video_formats[3] \o "+" \o audio_format
             ELSE video_formats[2] \o "+" \o audio_format

\* YtDlpCommandBuilder.with_format: the format_args it stores
with_format(quality, format_type, audio_codec, custom_format) ==
    IF quality = "custom" /\ Truthy(custom_format)
    THEN <<"-f", custom_format>>
    ELSE <<"-f", build_format_spec(quality, format_type, audio_codec)>>

\* YtDlpCommandBuilder.build_download_command: the call of with_format
build_download_command_format(opts) ==
    with_format(DictGet(opts, "format_choice", "1080p"),
                DictGet(opts, "format_type", "auto"),
                DictGet(opts, "audio_codec", "best"),
                DictGet(opts, "custom_format", None))

\* the format_choice argument each orchestrator flow passes to download_video
single_format_choice(opts) ==
    LET format_choice == DictGet(opts, "format_choice", "1080p")
    IN  IF format_choice = "custom"
        THEN DictGet(opts, "custom_format", "1080p")
        ELSE format_choice

date_format_choice(opts) ==
    LET format_choice == DictGet(opts, "format_choice", "1080p")
    IN  IF format_choice = "custom"
        THEN DictGet(opts, "custom_format", "1080p")
        ELSE format_choice

range_format_choice(opts) ==
    LET format_choice == DictGet(opts, "format_choice", "1080p")
    IN  IF format_choice = "custom"
        THEN DictGet(opts, "custom_format", "1080p")
        ELSE format_choice

\* DownloadThread.download_video: the format_spec placed after "-f"
download_video_format_spec(opts, format_choice) ==
    LET format_type == DictGet(opts, "format_type", "auto")
        audio_codec == DictGet(opts, "audio_codec", "best")
    IN  IF format_choice = "custom"
        THEN DictGet(opts, "custom_format", "248+251")
        ELSE build_format_spec(format_choice, format_type, audio_codec)

\* the -f value of the download command a run in mode m spawns
orchestrator_format_spec(m, opts) ==
    download_video_format_spec(opts,
        IF m = "single" THEN single_format_choice(opts)
        ELSE IF m = "date" THEN date_format_choice(opts)
        ELSE range_format_choice(opts))

\* option values the resolver is exercised with
QualityChoices == {"best_quality", "8K", "4K", "1440p", "1080p", "720p",
                   "480p", "360p", "240p", "custom", "144p"}
FormatTypes == {"auto", "MP4 (H.264)", "WebM (VP9)", "MP4 (AV1)",
                "audio_only"}
AudioCodecs == {"best", "Opus", "AAC", "Vorbis"}
CustomFormats == {"", "137+140", "bestvideo[height<=720]+bestaudio"}

\* option dictionaries: custom_format may be absent
FmtOptionSets ==
    { ("format_choice" :> q) @@ ("format_type" :> ft) @@ ("audio_codec" :> ac)
        : q \in QualityChoices, ft \in FormatTypes, ac \in AudioCodecs }
    \cup
    { ("format_choice" :> q) @@ ("format_type" :> ft) @@ ("audio_codec" :> ac)
        @@ ("custom_format" :> cf)
        : q \in QualityChoices, ft \in FormatTypes, ac \in AudioCodecs,
          cf \in CustomFormats }

NoFmtResult == [op |-> "none", mode |-> "none", value |-> ""]

CallBuildFormatSpec ==
    /\ DOMAIN fmt_options # {}
    /\ fmt_result' = [op |-> "build_format_spec", mode |-> "none",
                      value |-> build_format_spec(
                                    fmt_options["format_choice"],
                                    fmt_options["format_type"],
                                    fmt_options["audio_codec"])]
    /\ UNCHANGED <<fmt_options, threadVars, uiVars, unitVars>>

CallWithFormat ==
    /\ DOMAIN fmt_options # {}
    /\ fmt_result' = [op |-> "with_format", mode |-> "none",
                      value |-> build_download_command_format(fmt_options)[2]]
    /\ UNCHANGED <<fmt_options, threadVars, uiVars, unitVars>>

CallDownloadVideo(m) ==
    /\ DOMAIN fmt_options # {}
    /\ fmt_result' = [op |-> "download_video", mode |-> m,
                      value |-> orchestrator_format_spec(m, fmt_options)]
    /\ UNCHANGED <<fmt_options, threadVars, uiVars, unitVars>>

\* ------------------------------------------------------------------------
\* DownloadThread (download_thread.py)
\* ------------------------------------------------------------------------
Signal(name, text, args) == [sig |-> name, text |-> text, args |-> args]
download_complete == Signal("download_complete", "", <<>>)
download_error(text, args) == Signal("download_error", text, args)

\* a subprocess of the run; returncode is meaningful once alive is FALSE,
\* stdout is what a listing fetch printed once its result has been read
NoOutput == [json |-> "none", n |-> 0]

NewProc(kind, entry, date, stopped) ==
    [kind |-> kind, entry |-> entry, upload_date |-> date, alive |-> TRUE,
     returncode |-> 0, terminated |-> FALSE, late_terminate |-> FALSE,
     lines |-> 0, after_stop |-> stopped, stdout |-> NoOutput]

LastProc(t) == procs[t][Len(procs[t])]

\* number of subprocesses spawned so far by the threads in ts
RECURSIVE SpawnCount(_)
SpawnCount(ts) ==
    IF ts = {} THEN 0
    ELSE LET t == CHOOSE u \in ts : TRUE
         IN  Len(procs[t]) + SpawnCount(ts \ {t})

\* the model follows the runs up to a budget of spawned subprocesses
SpawnAllowed(budget) == SpawnCount(Threads) < budget

\* listing position of the entry the worker is processing (0 = none yet)
CurEntry(t) ==
    IF pc[t] \in {"gvi_spawn", "gvi_wait", "dv_spawn", "dv_blocked",
                  "dv_loop", "dv_read", "dv_exit", "dv_return", "sleep"}
       /\ mode[t] # "single"
    THEN entries[t][idx[t] + 1]
    ELSE IF pc[t] \in {"run_complete", "finished", "killed"}
    THEN MaxEntries + 1
    ELSE 0

\* self.<signal>.emit(...): recorded, and queued for the window's thread
Emit(t, s) ==
    /\ emitted' = [emitted EXCEPT ![t] = Append(@, s)]
    /\ ui_queue' = Append(ui_queue, <<t, s>>)

NoEmit == UNCHANGED <<emitted, ui_queue>>

\* Popen.terminate() on process p of thread t
Terminate(ps, p) ==
    IF ps[p].alive
    THEN [ps EXCEPT ![p].terminated = TRUE]
    ELSE [ps EXCEPT ![p].late_terminate = TRUE]

\* DownloadThread.request_stop, called from the window's thread
request_stop(t) ==
    /\ ~mutex_locked[t]
    /\ stop_requested' = [stop_requested EXCEPT ![t] = TRUE]
    /\ procs' = IF current_process[t] # 0
                THEN [procs EXCEPT ![t] = Terminate(@, current_process[t])]
                ELSE procs
    /\ stop_calls' = [stop_calls EXCEPT ![t] = @ + 1]
    /\ stop_entry' = IF stop_requested[t] THEN stop_entry
                     ELSE [stop_entry EXCEPT ![t] = CurEntry(t)]

RequestStop(t) ==
    /\ pc[t] \notin {"unborn", "finished", "killed"}
    /\ stop_calls[t] < MaxStopCalls
    /\ request_stop(t)
    /\ UNCHANGED <<pc, mode, options, current_process, mutex_locked,
                   playlist_info, entries, idx, downloaded_count, emitted>>
    /\ UNCHANGED <<uiVars, fmtVars, unitVars>>

\* the subprocess exits: on its own with exit code 0 or 1, or killed by the
\* terminate signal
ProcExit(t, p) ==
    /\ p \in 1..Len(procs[t])
    /\ procs[t][p].alive
    /\ \E rc \in (IF procs[t][p].terminated THEN {0, -15} ELSE {0, 1}) :
          procs' = [procs EXCEPT ![t][p].alive = FALSE,
                                 ![t][p].returncode = rc]
    /\ UNCHANGED <<pc, mode, options, stop_requested, current_process,
                   mutex_locked, playlist_info, entries, idx,
                   downloaded_count, emitted, stop_calls, stop_entry>>
    /\ UNCHANGED <<uiVars, fmtVars, unitVars>>

\* DownloadThread.run: dispatch on the mode
Run(t) ==
    /\ pc[t] = "run"
    /\ pc' = [pc EXCEPT ![t] = IF mode[t] = "single" THEN "gvi_spawn"
                               ELSE "pl_spawn"]
    /\ UNCHANGED <<mode, options, stop_requested, current_process,
                   mutex_locked, playlist_info, entries, idx,
                   downloaded_count, procs, emitted, stop_calls, stop_entry>>
    /\ UNCHANGED <<uiVars, fmtVars, unitVars>>

\* get_playlist_info: run_subprocess(["yt-dlp", "-J", "--flat-playlist", ...])
PlSpawn(t, budget) ==
    /\ pc[t] = "pl_spawn"
    /\ SpawnAllowed(budget)
    /\ procs' = [procs EXCEPT ![t] =
                    Append(@, NewProc("playlist", 0, <<>>, stop_requested[t]))]
    /\ pc' = [pc EXCEPT ![t] = "pl_wait"]
    /\ UNCHANGED <<mode, options, stop_requested, current_process,
                   mutex_locked, playlist_info, entries, idx,
                   downloaded_count, emitted, stop_calls, stop_entry>>
    /\ UNCHANGED <<uiVars, fmtVars, unitVars>>

\* what the listing subprocess can print on a zero exit code
PlaylistOutputs(limit) ==
    {[json |-> "invalid", n |-> 0], [json |-> "no_entries_key", n |-> 0]}
    \cup {[json |-> "ok", n |-> n] : n \in 0..limit}

\* variant: output that cannot be decoded counts as a listing of one entry
get_playlist_entries_lenient(returncode, out) ==
    IF returncode # 0 THEN <<>>
    ELSE IF out.json = "invalid" THEN <<1>>
    ELSE IF out.json # "ok" THEN <<>>
    ELSE [k \in 1..out.n |-> k]

\* get_playlist_info: the 'entries' list of the decoded listing, <<>> when
\* the call returns None or the listing has no entries
get_playlist_entries(returncode, out) ==
    IF returncode # 0 THEN <<>>
    ELSE IF out.json # "ok" THEN <<>>
    ELSE [k \in 1..out.n |-> k]

\* _download_by_range: the index check, the slice and the error message
start_index_exceeds(start_index, total_videos) == start_index >= total_videos

\* variant: the end index forgets the start index
range_end_index_from_zero(start_index, count, total_videos) ==
    Min(count, total_videos)

range_end_index(start_index, count, total_videos) ==
    Min(start_index + count, total_videos)

range_entries(listing, start_index, count) ==
    PySlice(listing, start_index,
            range_end_index(start_index, count, Len(listing)))

\* variant: the message carries the 0-based index
range_error_zero_based(start_index, total_videos) ==
    download_error("start_index_out_of_range", <<start_index, total_videos>>)

range_error(start_index, total_videos) ==
    download_error("start_index_out_of_range",
                   <<start_index + 1, total_videos>>)

\* the part of _download_by_date / _download_by_range that follows the
\* return of get_playlist_info
PlReturn(t, limit) ==
    /\ pc[t] = "pl_wait"
    /\ ~LastProc(t).alive
    /\ \E out \in PlaylistOutputs(limit) :
        /\ LastProc(t).returncode # 0 => out.json = "invalid"
        /\ LET listing == get_playlist_entries(LastProc(t).returncode, out)
               start_index == DictGet(options[t], "start_index", 0)
               count == DictGet(options[t], "count", 1)
           IN  IF listing = <<>>
               THEN /\ Emit(t, download_error("playlist_unavailable", <<>>))
                    /\ pc' = [pc EXCEPT ![t] = "run_complete"]
                    /\ UNCHANGED <<playlist_info, entries>>
               ELSE IF mode[t] = "date"
               THEN /\ playlist_info' = [playlist_info EXCEPT ![t] = listing]
                    /\ entries' = [entries EXCEPT ![t] = listing]
                    /\ pc' = [pc EXCEPT ![t] = "gvi_spawn"]
                    /\ NoEmit
               ELSE IF start_index_exceeds(start_index, Len(listing))
               THEN /\ Emit(t, range_error(start_index, Len(listing)))
                    /\ pc' = [pc EXCEPT ![t] = "run_complete"]
                    /\ playlist_info' = [playlist_info EXCEPT ![t] = listing]
                    /\ UNCHANGED entries
               ELSE /\ playlist_info' = [playlist_info EXCEPT ![t] = listing]
                    /\ entries' = [entries EXCEPT ![t] =
                                      range_entries(listing, start_index, count)]
                    /\ pc' = [pc EXCEPT ![t] =
                                 IF range_entries(listing, start_index, count)
                                       = <<>>
                                 THEN "run_complete" ELSE "gvi_spawn"]
                    /\ NoEmit
        /\ procs' = IF LastProc(t).returncode = 0
                    THEN [procs EXCEPT ![t][Len(procs[t])].stdout = out]
                    ELSE procs
    /\ UNCHANGED <<mode, options, stop_requested, current_process,
                   mutex_locked, idx, downloaded_count, stop_calls,
                   stop_entry>>
    /\ UNCHANGED <<download_thread, download_button, stop_button,
                   status_indicator, open_dialogs, ui_wait>>
    /\ UNCHANGED <<fmtVars, unitVars>>

\* get_video_info: run_subprocess(["yt-dlp", "-F", "--verbose", ...]); the
\* video itself has an upload date, which matters in date mode only
GviSpawn(t, budget) ==
    /\ pc[t] = "gvi_spawn"
    /\ SpawnAllowed(budget)
    /\ \E d \in (IF mode[t] = "date" THEN Dates ELSE {<<2, 0>>}) :
          procs' = [procs EXCEPT ![t] =
                       Append(@, NewProc("info", CurEntry(t), d,
                                         stop_requested[t]))]
    /\ pc' = [pc EXCEPT ![t] = "gvi_wait"]
    /\ UNCHANGED <<mode, options, stop_requested, current_process,
                   mutex_locked, playlist_info, entries, idx,
                   downloaded_count, emitted, stop_calls, stop_entry>>
    /\ UNCHANGED <<uiVars, fmtVars, unitVars>>

\* get_video_info: the dictionary scraped from the -F output (the empty
\* dictionary stands for None); only 'formats' and 'title' are ever set
get_video_info(returncode) ==
    IF returncode # 0 THEN <<>>
    ELSE ("formats" :> <<>>) @@ ("title" :> "title")

\* _download_by_date: upload_date and upload_date >= date_after
upload_date_in_range(video_info, date_after) ==
    LET upload_date == DictGet(video_info, "upload_date", <<>>)
    IN  upload_date # <<>> /\ StrGE(upload_date, date_after)

\* the loop moves on to the next entry, or ends
NextIter(t) ==
    /\ idx' = [idx EXCEPT ![t] = @ + 1]
    /\ pc' = [pc EXCEPT ![t] = IF idx[t] + 1 < Len(entries[t])
                               THEN "gvi_spawn" ELSE "run_complete"]

\* the caller's code after get_video_info returned
GviReturn(t) ==
    /\ pc[t] = "gvi_wait"
    /\ ~LastProc(t).alive
    /\ LET video_info == get_video_info(LastProc(t).returncode)
       IN  IF mode[t] = "single"
           THEN /\ UNCHANGED idx
                /\ IF DOMAIN video_info = {}
                   THEN /\ Emit(t, download_error("video_info_unavailable",
                                                  <<>>))
                        /\ pc' = [pc EXCEPT ![t] = "run_complete"]
                   ELSE /\ NoEmit
                        /\ pc' = [pc EXCEPT ![t] = "dv_spawn"]
           ELSE IF mode[t] = "date"
           THEN /\ NoEmit
                /\ IF DOMAIN video_info = {}
                   THEN NextIter(t)
                   ELSE IF upload_date_in_range(video_info,
                               DictGet(options[t], "date_after", <<>>))
                   THEN /\ pc' = [pc EXCEPT ![t] = "dv_spawn"]
                        /\ UNCHANGED idx
                   ELSE NextIter(t)
           ELSE /\ NoEmit
                /\ IF DOMAIN video_info # {}
                   THEN /\ pc' = [pc EXCEPT ![t] = "dv_spawn"]
                        /\ UNCHANGED idx
                   ELSE NextIter(t)
    /\ UNCHANGED <<mode, options, stop_requested, current_process,
                   mutex_locked, playlist_info, entries, downloaded_count,
                   procs, stop_calls, stop_entry>>
    /\ UNCHANGED <<download_thread, download_button, stop_button,
                   status_indicator, open_dialogs, ui_wait>>
    /\ UNCHANGED <<fmtVars, unitVars>>

\* download_video up to the Popen: building the command can raise (the
\* download directory cannot be created), and so can Popen, which is called
\* with the mutex held. The mutex is not recursive: when the command is
\* built and the mutex is still locked (only a Popen that raised in an
\* earlier download_video of the run leaves it locked, and nothing unlocks
\* it then), the worker blocks in lock() at line 241 for good
SpawnOutcomes == {"ok", "build_raises", "popen_raises"}

DvSpawn(t, budget) ==
    /\ pc[t] = "dv_spawn"
    /\ \E outcome \in SpawnOutcomes :
        /\ DictGet(options[t], "download_dir", "./download") = "" =>
               outcome = "build_raises"
        /\ IF outcome = "build_raises"
           THEN /\ Emit(t, download_error("download_exception", <<>>))
                /\ pc' = [pc EXCEPT ![t] = "dv_return"]
                /\ UNCHANGED <<procs, current_process, mutex_locked>>
           ELSE IF mutex_locked[t]
           THEN /\ pc' = [pc EXCEPT ![t] = "dv_blocked"]
                /\ NoEmit
                /\ UNCHANGED <<procs, current_process, mutex_locked>>
           ELSE IF outcome = "popen_raises"
           THEN /\ mutex_locked' = [mutex_locked EXCEPT ![t] = TRUE]
                /\ Emit(t, download_error("download_exception", <<>>))
                /\ pc' = [pc EXCEPT ![t] = "dv_return"]
                /\ UNCHANGED <<procs, current_process>>
           ELSE /\ SpawnAllowed(budget)
                /\ procs' = [procs EXCEPT ![t] =
                                Append(@, NewProc("download", CurEntry(t),
                                                  LastProc(t).upload_date,
                                                  stop_requested[t]))]
                /\ current_process' = [current_process EXCEPT ![t] =
                                          Len(procs[t]) + 1]
                /\ pc' = [pc EXCEPT ![t] = "dv_loop"]
                /\ NoEmit
                /\ UNCHANGED mutex_locked
    /\ UNCHANGED <<mode, options, stop_requested, playlist_info, entries,
                   idx, downloaded_count, stop_calls, stop_entry>>
    /\ UNCHANGED <<download_thread, download_button, stop_button,
                   status_indicator, open_dialogs, ui_wait>>
    /\ UNCHANGED <<fmtVars, unitVars>>

\* download_video: the stop check at the top of the read loop
DvLoopCheck(t) ==
    /\ pc[t] = "dv_loop"
    /\ ~mutex_locked[t]
    /\ IF stop_requested[t]
       THEN /\ procs' = [procs EXCEPT ![t] = Terminate(@, Len(@))]
            /\ pc' = [pc EXCEPT ![t] = "dv_return"]
       ELSE /\ pc' = [pc EXCEPT ![t] = "dv_read"]
            /\ UNCHANGED procs
    /\ UNCHANGED <<mode, options, stop_requested, current_process,
                   mutex_locked, playlist_info, entries, idx,
                   downloaded_count, emitted, stop_calls, stop_entry>>
    /\ UNCHANGED <<uiVars, fmtVars, unitVars>>

\* download_video: readline() returns a line, or the stream has ended and
\* the process has exited
DvRead(t) ==
    /\ pc[t] = "dv_read"
    /\ \/ /\ LastProc(t).lines < MaxLines
          /\ procs' = [procs EXCEPT ![t][Len(procs[t])].lines = @ + 1]
          /\ pc' = [pc EXCEPT ![t] = "dv_loop"]
       \/ /\ ~LastProc(t).alive
          /\ pc' = [pc EXCEPT ![t] = "dv_exit"]
          /\ UNCHANGED procs
    /\ UNCHANGED <<mode, options, stop_requested, current_process,
                   mutex_locked, playlist_info, entries, idx,
                   downloaded_count, emitted, stop_calls, stop_entry>>
    /\ UNCHANGED <<uiVars, fmtVars, unitVars>>

\* download_video: the exit code is examined after the loop
DvExit(t) ==
    /\ pc[t] = "dv_exit"
    /\ IF LastProc(t).returncode = 0
       THEN NoEmit
       ELSE /\ ~mutex_locked[t]
            /\ IF ~stop_requested[t]
               THEN Emit(t, download_error("download_failed", <<>>))
               ELSE NoEmit
    /\ pc' = [pc EXCEPT ![t] = "dv_return"]
    /\ UNCHANGED <<mode, options, stop_requested, current_process,
                   mutex_locked, playlist_info, entries, idx,
                   downloaded_count, procs, stop_calls, stop_entry>>
    /\ UNCHANGED <<download_thread, download_button, stop_button,
                   status_indicator, open_dialogs, ui_wait>>
    /\ UNCHANGED <<fmtVars, unitVars>>

\* the caller's code after download_video returned: count the download and
\* decide whether to take the inter-item delay
DvReturn(t) ==
    /\ pc[t] = "dv_return"
    /\ IF mode[t] = "single"
       THEN /\ pc' = [pc EXCEPT ![t] = "run_complete"]
            /\ UNCHANGED <<idx, downloaded_count>>
       ELSE IF mode[t] = "date"
       THEN /\ downloaded_count' = [downloaded_count EXCEPT ![t] = @ + 1]
            /\ IF downloaded_count[t] + 1 < Len(playlist_info[t])
               THEN /\ pc' = [pc EXCEPT ![t] = "sleep"]
                    /\ UNCHANGED idx
               ELSE NextIter(t)
       ELSE /\ UNCHANGED downloaded_count
            /\ IF idx[t] < Len(entries[t]) - 1
               THEN /\ pc' = [pc EXCEPT ![t] = "sleep"]
                    /\ UNCHANGED idx
               ELSE NextIter(t)
    /\ UNCHANGED <<mode, options, stop_requested, current_process,
                   mutex_locked, playlist_info, entries, procs, emitted,
                   stop_calls, stop_entry>>
    /\ UNCHANGED <<uiVars, fmtVars, unitVars>>

\* time.sleep(DOWNLOAD_CONFIG['delay_between_downloads']) has elapsed
Sleep(t) ==
    /\ pc[t] = "sleep"
    /\ NextIter(t)
    /\ UNCHANGED <<mode, options, stop_requested, current_process,
                   mutex_locked, playlist_info, entries, downloaded_count,
                   procs, emitted, stop_calls, stop_entry>>
    /\ UNCHANGED <<uiVars, fmtVars, unitVars>>

\* DownloadThread.run: the mode's flow has returned
RunComplete(t) ==
    /\ pc[t] = "run_complete"
    /\ Emit(t, download_complete)
    /\ pc' = [pc EXCEPT ![t] = "finished"]
    /\ UNCHANGED <<mode, options, stop_requested, current_process,
                   mutex_locked, playlist_info, entries, idx,
                   downloaded_count, procs, stop_calls, stop_entry>>
    /\ UNCHANGED <<download_thread, download_button, stop_button,
                   status_indicator, open_dialogs, ui_wait>>
    /\ UNCHANGED <<fmtVars, unitVars>>

Worker(t, limit, budget) ==
    \/ Run(t)
    \/ PlSpawn(t, budget)
    \/ PlReturn(t, limit)
    \/ GviSpawn(t, budget)
    \/ GviReturn(t)
    \/ DvSpawn(t, budget)
    \/ DvLoopCheck(t)
    \/ DvRead(t)
    \/ DvExit(t)
    \/ DvReturn(t)
    \/ Sleep(t)
    \/ RunComplete(t)

\* ------------------------------------------------------------------------
\* Outcome of a call: the value returned, or the exception raised
\* ------------------------------------------------------------------------
Ok(op, value) ==
    [op |-> op, status |-> "ok", value |-> value, message |-> "",
     args |-> <<>>]
Raise(op, exception, message, args) ==
    [op |-> op, status |-> exception, value |-> <<>>, message |-> message,
     args |-> args]
NoCall == Ok("none", <<>>)

\* ------------------------------------------------------------------------
\* CookieManager (cookie_manager.py), with the paths of utils.py
\* ------------------------------------------------------------------------
\* BROWSER_CONFIG['browser_map']
browser_map ==
    ("Firefox" :> "firefox") @@ ("Chrome" :> "chrome")
    @@ ("Microsoft Edge" :> "edge")

\* {v: k for k, v in browser_map.items()}.get(browser, browser)
browser_display_name(browser) ==
    IF \E k \in DOMAIN browser_map : browser_map[k] = browser
    THEN CHOOSE k \in DOMAIN browser_map : browser_map[k] = browser
    ELSE browser

\* utils.get_browser_profile_path with BROWSER_CONFIG['browser_profiles']
get_browser_profile_path(browser, appdata_local) ==
    IF browser = "edge" THEN appdata_local \o "/Microsoft/Edge/User Data"
    ELSE IF browser = "chrome"
    THEN appdata_local \o "/Google/Chrome/User Data"
    ELSE IF browser = "firefox"
    THEN appdata_local \o "/Mozilla/Firefox/Profiles"
    ELSE None

\* os.path.normpath on the paths of the model: "." components and
\* "name/.." pairs collapse
normpath(path) ==
    IF path = "./cookies.txt" THEN "cookies.txt"
    ELSE IF path = "tmp/../cookies.txt" THEN "cookies.txt"
    ELSE path

\* os.path.exists
exists(env, path) == normpath(path) \in env.paths

\* the environments of the model: LOCALAPPDATA unset, empty or set, and
\* any subset of the paths below present on disk
AppData == "C:/Local"
DiskPaths == {"C:/Local/Mozilla/Firefox/Profiles",
              "C:/Local/Google/Chrome/User Data", "cookies.txt"}
Environments ==
    [LOCALAPPDATA : {None, "", AppData}, paths : SUBSET DiskPaths]

\* CookieManager.__init__
NewCookieManager ==
    [use_browser |-> TRUE, browser |-> "firefox", cookie_file |-> None]

BrowserNames == {"Firefox", "Chrome", "Microsoft Edge", "Opera"}
CookiePaths == {None, "", "cookies.txt", "./cookies.txt",
                "tmp/../cookies.txt", "missing.txt"}

\* CookieManager.set_browser_mode
set_browser_mode(cm, browser_name) ==
    [cm EXCEPT !.use_browser = TRUE,
               !.browser = DictGet(browser_map, browser_name, "firefox")]

\* CookieManager.set_file_mode
\* variant: the path is stored, the mode flag is left as it was
set_file_mode_keeps_flag(cm, cookie_file_path) ==
    [cm EXCEPT !.cookie_file = cookie_file_path]

set_file_mode(cm, cookie_file_path) ==
    [cm EXCEPT !.use_browser = FALSE, !.cookie_file = cookie_file_path]

\* CookieManager._get_browser_cookie_args
get_browser_cookie_args(cm, env) ==
    LET appdata_local == env.LOCALAPPDATA
    IN  IF ~Truthy(appdata_local)
        THEN Raise("get_cookie_args", "Exception", "no_localappdata", <<>>)
        ELSE LET profile_dir ==
                     get_browser_profile_path(cm.browser, appdata_local)
             IN  IF ~Truthy(profile_dir) \/ ~exists(env, profile_dir)
                 THEN Raise("get_cookie_args", "Exception",
                            "profile_dir_missing",
                            <<browser_display_name(cm.browser)>>)
                 ELSE Ok("get_cookie_args",
                         <<"--cookies-from-browser", cm.browser>>)

\* utils.validate_file_exists followed by the rest of
\* CookieManager._get_file_cookie_args
get_file_cookie_args(cm, env) ==
    IF ~Truthy(cm.cookie_file)
    THEN Raise("get_cookie_args", "Exception", "cookie_file_not_set", <<>>)
    ELSE IF ~exists(env, cm.cookie_file)
    THEN Raise("get_cookie_args", "Exception", "file_missing",
               <<cm.cookie_file>>)
    ELSE Ok("get_cookie_args", <<"--cookies", normpath(cm.cookie_file)>>)

\* CookieManager.get_cookie_args
get_cookie_args(cm, env) ==
    IF cm.use_browser
    THEN get_browser_cookie_args(cm, env)
    ELSE get_file_cookie_args(cm, env)

NoSetMode == [call |-> "none", arg |-> ""]

SetBrowserMode(browser_name) ==
    /\ cookie_manager' = set_browser_mode(cookie_manager, browser_name)
    /\ last_set_mode' = [call |-> "set_browser_mode", arg |-> browser_name]
    /\ cookie_result' = NoCall
    /\ UNCHANGED <<environ, threadVars, uiVars, fmtVars, builderVars,
                   cookieFileVars, progressVars, validatorVars>>

SetFileMode(cookie_file_path) ==
    /\ cookie_manager' = set_file_mode(cookie_manager, cookie_file_path)
    /\ last_set_mode' = [call |-> "set_file_mode", arg |-> cookie_file_path]
    /\ cookie_result' = NoCall
    /\ UNCHANGED <<environ, threadVars, uiVars, fmtVars, builderVars,
                   cookieFileVars, progressVars, validatorVars>>

GetCookieArgs ==
    /\ cookie_result' = get_cookie_args(cookie_manager, environ)
    /\ UNCHANGED <<cookie_manager, environ, last_set_mode, threadVars,
                   uiVars, fmtVars, builderVars, cookieFileVars,
                   progressVars, validatorVars>>

\* ------------------------------------------------------------------------
\* YtDlpCommandBuilder (command_builder.py)
\* ------------------------------------------------------------------------
\* an optional integer argument that was not given
NoneInt == -1

\* YtDlpCommandBuilder.reset: the attributes it assigns
NewBuilder ==
    [base_args |-> <<"yt-dlp">>, cookie_args |-> <<>>, format_args |-> <<>>,
     output_args |-> <<>>, misc_args |-> <<>>, url |-> None]

\* YtDlpCommandBuilder.with_output: the output_args it stores
with_output(download_dir, output_template, download_archive) ==
    LET template ==
            IF Truthy(output_template)
            THEN download_dir \o "/" \o output_template
            ELSE download_dir \o "/%(title)s.%(ext)s"
    IN  <<"-o", template>>
        \o (IF Truthy(download_archive)
            THEN <<"--download-archive", download_archive>> ELSE <<>>)

\* YtDlpCommandBuilder.with_basic_options: the arguments it appends
basic_options ==
    <<"--no-check-certificates", "--no-playlist",
      "--extractor-retries", ToString(3), "--socket-timeout", ToString(30),
      "--user-agent", "Mozilla/5.0">>

\* YtDlpCommandBuilder.with_playlist_options: the arguments it appends
with_playlist_options(start_index, end_index, date_after) ==
    (IF start_index # NoneInt
     THEN <<"--playlist-start", ToString(start_index + 1)>> ELSE <<>>)
    \o (IF end_index # NoneInt
        THEN <<"--playlist-end", ToString(end_index)>> ELSE <<>>)
    \o (IF Truthy(date_after) THEN <<"--dateafter", date_after>> ELSE <<>>)

\* YtDlpCommandBuilder.build: the test "if not self.url"
\* variant: only an unset URL is refused
url_missing_none_only(url) == url = None

url_missing(url) == ~Truthy(url)

\* YtDlpCommandBuilder.build: the command it assembles
\* variant: the cookie fragment is placed before the misc fragment
build_command_cookies_first(b) ==
    b.base_args \o b.format_args \o b.cookie_args \o b.misc_args
    \o b.output_args \o <<b.url>>

build_command(b) ==
    b.base_args \o b.format_args \o b.misc_args \o b.cookie_args
    \o b.output_args \o <<b.url>>

\* YtDlpCommandBuilder.build
build(b) ==
    IF url_missing(b.url)
    THEN Raise("build", "ValueError", "url_empty", <<>>)
    ELSE Ok("build", build_command(b))

\* values the builder methods are called with
MaxMiscArgs == 8
BuilderUrls == {None, "", "https://youtu.be/x"}
BuilderFormats == {<<"custom", "auto", "best", "137+140">>}
BuilderDirs == {"", "C:/dl"}
BuilderTemplates == {None, "%(id)s.%(ext)s"}
BuilderArchives == {None}
BuilderStarts == {2}
BuilderEnds == {NoneInt}
BuilderDates == {None}
CookieManagers ==
    {NewCookieManager, set_file_mode(NewCookieManager, "./cookies.txt"),
     set_file_mode(NewCookieManager, None)}

BuilderUnchanged ==
    UNCHANGED <<threadVars, uiVars, fmtVars, cookieVars, cookieFileVars,
                progressVars, validatorVars>>

BuilderReset ==
    /\ builder' = NewBuilder
    /\ build_result' = NoCall
    /\ BuilderUnchanged

\* with_cookies: an exception of the cookie manager is raised again
WithCookies(cm) ==
    /\ LET r == get_cookie_args(cm, environ)
       IN  IF r.status = "ok"
           THEN /\ builder' = [builder EXCEPT !.cookie_args = r.value]
                /\ build_result' = NoCall
           ELSE /\ build_result' = Raise("with_cookies", "Exception",
                                         r.message, r.args)
                /\ UNCHANGED builder
    /\ BuilderUnchanged

WithFormat(f) ==
    /\ builder' = [builder EXCEPT
                      !.format_args = with_format(f[1], f[2], f[3], f[4])]
    /\ build_result' = NoCall
    /\ BuilderUnchanged

\* with_output: ensure_directory_exists creates the directory, and raises
\* when it cannot (the empty path)
WithOutput(download_dir, output_template, download_archive) ==
    /\ IF ~exists(environ, download_dir) /\ download_dir = ""
       THEN /\ build_result' = Raise("with_output", "FileNotFoundError",
                                     "makedirs", <<download_dir>>)
            /\ UNCHANGED <<builder, environ>>
       ELSE /\ environ' = [environ EXCEPT !.paths = @ \cup {download_dir}]
            /\ builder' = [builder EXCEPT !.output_args =
                              with_output(download_dir, output_template,
                                          download_archive)]
            /\ build_result' = NoCall
    /\ UNCHANGED <<threadVars, uiVars, fmtVars, cookie_manager,
                   last_set_mode, cookie_result, cookieFileVars,
                   progressVars, validatorVars>>

\* the with_* methods that extend misc_args
ExtendMisc(extra) ==
    /\ Len(builder.misc_args) + Len(extra) <= MaxMiscArgs
    /\ builder' = [builder EXCEPT !.misc_args = @ \o extra]
    /\ build_result' = NoCall

WithBasicOptions ==
    /\ ExtendMisc(basic_options)
    /\ BuilderUnchanged

WithInfoOnly ==
    /\ ExtendMisc(<<"-J", "--flat-playlist">>)
    /\ BuilderUnchanged

WithFormatList ==
    /\ ExtendMisc(<<"-F", "--verbose", "--no-warnings", "--no-playlist">>)
    /\ BuilderUnchanged

WithPlaylistOptions(start_index, end_index, date_after) ==
    /\ ExtendMisc(with_playlist_options(start_index, end_index, date_after))
    /\ BuilderUnchanged

WithUrl(url) ==
    /\ builder' = [builder EXCEPT !.url = url]
    /\ build_result' = NoCall
    /\ BuilderUnchanged

Build ==
    /\ build_result' = build(builder)
    /\ UNCHANGED builder
    /\ BuilderUnchanged

\* YtDlpCommandBuilder.build_download_command: the playlist arguments
download_playlist_options(opts) ==
    IF "start_index" \in DOMAIN opts \/ "date_after" \in DOMAIN opts
    THEN LET start_index == DictGet(opts, "start_index", NoneInt)
             count == DictGet(opts, "count", NoneInt)
             end_index == IF start_index # NoneInt /\ count # NoneInt
                             /\ count # 0
                          THEN start_index + count ELSE NoneInt
             date_after == DictGet(opts, "date_after", None)
         IN  with_playlist_options(start_index, end_index, date_after)
    ELSE <<>>

\* YtDlpCommandBuilder.build_download_command: the builder after the chain
\* reset().with_cookies().with_basic_options(), with_format(), with_output(),
\* with_playlist_options(), with_url(), and the outcome of the final build()
\* or of the step that raised
build_download_command(url, opts, cm, env) ==
    LET cookies == get_cookie_args(cm, env)
        download_dir == DictGet(opts, "download_dir", "./download")
        b1 == [NewBuilder EXCEPT !.cookie_args = cookies.value,
                                 !.misc_args = basic_options]
        b2 == [b1 EXCEPT !.format_args =
                             build_download_command_format(opts)]
        b3 == [b2 EXCEPT !.output_args =
                             with_output(download_dir,
                                 DictGet(opts, "output_template", None),
                                 DictGet(opts, "download_archive", None))]
        b4 == [b3 EXCEPT !.misc_args = @ \o download_playlist_options(opts),
                         !.url = url]
    IN  IF cookies.status # "ok"
        THEN [builder |-> NewBuilder, created |-> {},
              result |-> Raise("build_download_command", "Exception",
                               cookies.message, cookies.args)]
        ELSE IF ~exists(env, download_dir) /\ download_dir = ""
        THEN [builder |-> b2, created |-> {},
              result |-> Raise("build_download_command", "FileNotFoundError",
                               "makedirs", <<download_dir>>)]
        ELSE [builder |-> b4, created |-> {download_dir},
              result |-> [build(b4) EXCEPT !.op = "build_download_command"]]

BuilderOptionSets ==
    {<<>>,
     ("format_choice" :> "720p") @@ ("format_type" :> "MP4 (H.264)")
         @@ ("download_dir" :> "C:/dl") @@ ("start_index" :> 1)
         @@ ("count" :> 2),
     ("format_choice" :> "custom") @@ ("custom_format" :> "137+140")
         @@ ("download_dir" :> "") @@ ("date_after" :> "20240101")}

BuildDownloadCommand(url, opts, cm) ==
    /\ LET r == build_download_command(url, opts, cm, environ)
       IN  /\ builder' = r.builder
           /\ build_result' = r.result
           /\ environ' = [environ EXCEPT !.paths = @ \cup r.created]
    /\ UNCHANGED <<threadVars, uiVars, fmtVars, cookie_manager,
                   last_set_mode, cookie_result, cookieFileVars,
                   progressVars, validatorVars>>

\* ------------------------------------------------------------------------
\* CookieManager.validate_cookie_file (cookie_manager.py)
\*
\* A line of the file is the sequence of its tab-separated fields, without
\* the line end; predicates on the characters of a field are given by the
\* sets of fields that satisfy them.
\* ------------------------------------------------------------------------
\* COOKIE_CONFIG
important_cookies == {"__Secure-3PSID", "SAPISID", "HSID", "SSID", "APISID",
                      "LOGIN_INFO", "SID", "__Secure-3PAPISID"}
cookie_file_headers == {"# Netscape HTTP Cookie File", "# HTTP Cookie File"}

\* lines of the cookie files of the model
HeaderLine == <<"# Netscape HTTP Cookie File">>
CommentLine == <<"# exported">>
BlankLine == <<"">>
SidRow == <<".youtube.com", "TRUE", "/", "TRUE", "0", "SID", "v">>
ExpiredRow == <<".google.com", "TRUE", "/", "FALSE", "500", "NID", "v">>
FutureRow == <<"www.youtube.com", "FALSE", "/", "FALSE", "2000", "PREF", "v">>
ShortRow == <<".youtube.com", "TRUE", "/", "TRUE", "0", "SID">>
TextExpiryRow == <<".example.com", "TRUE", "/", "TRUE", "session", "HSID",
                   "v">>
EmptyValueRow == <<".youtube.com", "TRUE", "/", "TRUE", "500", "SSID", "">>
HttpOnlyRow == <<"#HttpOnly_.youtube.com", "TRUE", "/", "TRUE", "2000",
                 "LOGIN_INFO", "v">>
FileLines == {HeaderLine, CommentLine, BlankLine, SidRow, ExpiredRow,
              FutureRow, ShortRow, TextExpiryRow, EmptyValueRow, HttpOnlyRow}
MaxFileLines == 3

\* character predicates on the fields of the model
is_whitespace(field) == field \in {"", " "}
starts_with_hash(field) ==
    field \in {"# Netscape HTTP Cookie File", "# exported",
               "#HttpOnly_.youtube.com"}
starts_with_header(field) == field \in cookie_file_headers
contains_youtube(domain) ==
    domain \in {".youtube.com", "www.youtube.com", "#HttpOnly_.youtube.com"}

\* int(expiry): the value, or ValueError (modelled as -1) for a field that
\* is not a number; the time unit of the model is coarse
parse_int(field) ==
    IF field = "0" THEN 0
    ELSE IF field = "500" THEN 500
    ELSE IF field = "2000" THEN 2000
    ELSE -1
current_time == 1000

\* str.strip() on a line: leading and trailing tabs and blanks go, and
\* with them the empty fields at both ends
RECURSIVE lstrip(_)
lstrip(fields) ==
    IF fields # <<>> /\ is_whitespace(Head(fields))
    THEN lstrip(Tail(fields)) ELSE fields

RECURSIVE rstrip(_)
rstrip(fields) ==
    IF fields # <<>> /\ is_whitespace(fields[Len(fields)])
    THEN rstrip(SubSeq(fields, 1, Len(fields) - 1)) ELSE fields

strip(fields) == rstrip(lstrip(fields))

\* the expiry test of validate_cookie_file
\* variant: the session expiry 0 is compared with the clock like any other
is_expired_zero_included(expiry) ==
    parse_int(expiry) # -1 /\ parse_int(expiry) < current_time

is_expired(expiry) ==
    /\ parse_int(expiry) # -1
    /\ parse_int(expiry) # 0
    /\ parse_int(expiry) < current_time

NewValidationResult ==
    [is_valid |-> FALSE, issues |-> <<>>, youtube_cookies_count |-> 0,
     important_cookies |-> {}, expired_cookies |-> 0, total_cookies |-> 0]

\* the body of the loop over the lines, for one line
count_cookie_line(raw, result) ==
    LET stripped == strip(raw)
    IN  IF stripped = <<>> \/ starts_with_hash(Head(stripped))
        THEN result
        ELSE IF Len(stripped) < 7
        THEN result
        ELSE LET domain == stripped[1]
                 expiry == stripped[5]
                 name == stripped[6]
             IN  [result EXCEPT
                    !.total_cookies = @ + 1,
                    !.youtube_cookies_count =
                        IF contains_youtube(domain) THEN @ + 1 ELSE @,
                    !.important_cookies =
                        IF name \in important_cookies THEN @ \cup {name}
                        ELSE @,
                    !.expired_cookies =
                        IF is_expired(expiry) THEN @ + 1 ELSE @]

RECURSIVE count_cookie_lines(_, _)
count_cookie_lines(lines, result) ==
    IF lines = <<>> THEN result
    ELSE count_cookie_lines(Tail(lines),
                            count_cookie_line(Head(lines), result))

\* CookieManager.validate_cookie_file on a file that can be read (readable)
\* or whose open() / read raises
validate_cookie_file(file) ==
    IF ~file.readable
    THEN [NewValidationResult EXCEPT !.issues = <<"read_error">>]
    ELSE IF file.lines = <<>>
    THEN [NewValidationResult EXCEPT !.issues = <<"empty_file">>]
    ELSE LET first_line == strip(file.lines[1])
             header_ok == first_line # <<>>
                          /\ starts_with_header(Head(first_line))
             checked == [NewValidationResult EXCEPT !.issues =
                            IF header_ok THEN <<>> ELSE <<"bad_header">>]
             counted == count_cookie_lines(file.lines, checked)
         IN  [counted EXCEPT !.is_valid =
                 counted.total_cookies > 0
                 /\ counted.youtube_cookies_count > 0]

RECURSIVE SeqsUpTo(_, _)
SeqsUpTo(S, n) ==
    IF n = 0 THEN {<<>>}
    ELSE LET shorter == SeqsUpTo(S, n - 1)
         IN  shorter \cup {Append(s, x) : s \in shorter, x \in S}

CookieFiles ==
    {[readable |-> TRUE, lines |-> ls] : ls \in SeqsUpTo(FileLines, MaxFileLines)}
    \cup {[readable |-> FALSE, lines |-> <<>>]}

NoValidation == [op |-> "none", result |-> NewValidationResult]

ValidateCookieFile ==
    /\ validation_result' = [op |-> "validate_cookie_file",
                             result |-> validate_cookie_file(cookie_file_lines)]
    /\ UNCHANGED <<cookie_file_lines, threadVars, uiVars, fmtVars,
                   builderVars, cookieVars, progressVars, validatorVars>>

\* ------------------------------------------------------------------------
\* DownloadThread._parse_progress_line (download_thread.py)
\*
\* An output line is the sequence of its blank-separated words; what a
\* regular expression finds in a word is given by tables over the words of
\* the model.
\* ------------------------------------------------------------------------
Words == {"[download]", "42.5%", "100%", "110%", "%(title)s", "4294967296%",
          "at", "format", "1.50MiB/s", "Unknown", "ETA", "00:07",
          "Destination:"}
MaxWords == 4
SampleLine ==
    <<"[download]", "42.5%", "of", "10.00MiB", "at", "1.50MiB/s", "ETA",
      "00:07">>

\* '[download]' in line, '%' in line
contains_marker(word) == word = "[download]"
contains_percent(word) ==
    word \in {"42.5%", "100%", "110%", "%(title)s", "4294967296%"}

\* r'(\d+(?:\.\d+)?)%' inside a word: the captured number, "" for no match
percent_group(word) ==
    IF word = "42.5%" THEN "42.5"
    ELSE IF word = "100%" THEN "100"
    ELSE IF word = "110%" THEN "110"
    ELSE IF word = "4294967296%" THEN "4294967296"
    ELSE ""

\* int(float(group)) as a decimal string; the last value does not fit the
\* int argument of the download_progress signal
int_of_float(group) ==
    IF group = "42.5" THEN "42"
    ELSE group
fits_signal_int(number) == number # "4294967296"

\* r'at\s+([0-9.]+[KMG]?iB/s)': a word ending in "at", blanks, and a word
\* that begins with a rate; the captured rate, "" for no match
ends_with_at(word) == word \in {"at", "format"}
rate_group(word) == IF word = "1.50MiB/s" THEN "1.50MiB/s" ELSE ""

\* r'ETA\s+([0-9:]+)': a word ending in "ETA", blanks, and a word that
\* begins with digits or colons; the captured prefix, "" for no match
ends_with_ETA(word) == word = "ETA"
eta_group(word) ==
    IF word = "00:07" THEN "00:07"
    ELSE IF word = "1.50MiB/s" THEN "1"
    ELSE IF word = "42.5%" THEN "42"
    ELSE IF word = "100%" THEN "100"
    ELSE IF word = "110%" THEN "110"
    ELSE IF word = "4294967296%" THEN "4294967296"
    ELSE IF word = "10.00MiB" THEN "10"
    ELSE ""

\* re.search: the leftmost match of each pattern in the line
search_percent(ln) ==
    LET hits == {k \in 1..Len(ln) : percent_group(ln[k]) # ""}
    IN  IF hits = {} THEN ""
        ELSE percent_group(ln[CHOOSE k \in hits : \A j \in hits : k <= j])

search_speed(ln) ==
    LET hits == {k \in 1..(Len(ln) - 1) :
                    ends_with_at(ln[k]) /\ rate_group(ln[k + 1]) # ""}
    IN  IF hits = {} THEN ""
        ELSE rate_group(ln[(CHOOSE k \in hits : \A j \in hits : k <= j) + 1])

search_eta(ln) ==
    LET hits == {k \in 1..(Len(ln) - 1) :
                    ends_with_ETA(ln[k]) /\ eta_group(ln[k + 1]) # ""}
    IN  IF hits = {} THEN ""
        ELSE eta_group(ln[(CHOOSE k \in hits : \A j \in hits : k <= j) + 1])

\* the test that opens _parse_progress_line
\* variant: the marker alone admits the line
is_progress_line_marker_only(ln) ==
    \E k \in 1..Len(ln) : contains_marker(ln[k])

is_progress_line(ln) ==
    /\ \E k \in 1..Len(ln) : contains_marker(ln[k])
    /\ \E k \in 1..Len(ln) : contains_percent(ln[k])

ProgressSignal(name, value) == [sig |-> name, value |-> value]

\* _parse_progress_line: the signals emitted, in order; an emit that raises
\* ends the parse, the exception being swallowed by the except clause.
\* overflow_raises: whether the binding refuses an int that does not fit
parse_progress_line(ln, overflow_raises) ==
    IF ~is_progress_line(ln) THEN <<>>
    ELSE LET progress_match == search_percent(ln)
             speed_match == search_speed(ln)
             eta_match == search_eta(ln)
             tail == (IF speed_match # ""
                      THEN <<ProgressSignal("download_speed", speed_match)>>
                      ELSE <<>>)
                     \o (IF eta_match # ""
                         THEN <<ProgressSignal("eta_update", eta_match)>>
                         ELSE <<>>)
         IN  IF progress_match = "" THEN tail
             ELSE IF fits_signal_int(int_of_float(progress_match))
             THEN <<ProgressSignal("download_progress",
                                   int_of_float(progress_match))>> \o tail
             ELSE IF overflow_raises THEN <<>>
             ELSE <<ProgressSignal("download_progress", "0")>> \o tail

ProgressLines == SeqsUpTo(Words, MaxWords) \cup {SampleLine}

NoProgress == [op |-> "none", events |-> <<>>, raised |-> FALSE]

ParseProgressLine ==
    /\ \E overflow_raises \in BOOLEAN :
          progress_result' =
              [op |-> "_parse_progress_line",
               events |-> parse_progress_line(line, overflow_raises),
               raised |-> FALSE]
    /\ UNCHANGED <<line, threadVars, uiVars, fmtVars, builderVars,
                   cookieVars, cookieFileVars, validatorVars>>

\* ------------------------------------------------------------------------
\* OptionsValidator (command_builder.py)
\* ------------------------------------------------------------------------
\* the characters of the custom format strings of the model
Chars(s) ==
    IF s = "" THEN <<>>
    ELSE IF s = "  " THEN <<" ", " ">>
    ELSE IF s = "137" THEN <<"1", "3", "7">>
    ELSE IF s = " 137 " THEN <<" ", "1", "3", "7", " ">>
    ELSE IF s = "137+140" THEN <<"1", "3", "7", "+", "1", "4", "0">>
    ELSE IF s = "137+" THEN <<"1", "3", "7", "+">>
    ELSE IF s = "bestvideo" THEN <<"b", "e", "s", "t", "v", "i", "d", "e", "o">>
    ELSE IF s = "worst" THEN <<"w", "o", "r", "s", "t">>
    ELSE IF s = "bv[h]" THEN <<"b", "v", "[", "h", "]">>
    ELSE IF s = "[h]" THEN <<"[", "h", "]">>
    ELSE <<"m", "p", "4">>
ValidatorFormats == {"", "  ", "137", " 137 ", "137+140", "137+",
                     "bestvideo", "worst", "bv[h]", "[h]", "mp4"}

Digits == {"0", "1", "2", "3", "4", "5", "6", "7", "8", "9"}
WordChars == Digits \cup {"b", "e", "s", "t", "v", "i", "d", "o", "w", "r",
                          "h", "m", "p", "_"}

\* str.strip() on a sequence of characters
RECURSIVE strip_chars(_)
strip_chars(cs) ==
    IF cs # <<>> /\ Head(cs) = " " THEN strip_chars(Tail(cs))
    ELSE IF cs # <<>> /\ cs[Len(cs)] = " "
    THEN strip_chars(SubSeq(cs, 1, Len(cs) - 1))
    ELSE cs

all_in(cs, a, b, class) == \A k \in a..b : cs[k] \in class
starts_with(cs, prefix) ==
    Len(cs) >= Len(prefix) /\ SubSeq(cs, 1, Len(prefix)) = prefix

\* OptionsValidator._is_valid_format_spec: re.match with each pattern
is_valid_format_spec(cs) ==
    IF cs = <<>> THEN FALSE
    ELSE \/ all_in(cs, 1, Len(cs), Digits)                       \* ^\d+$
         \/ \E k \in 2..(Len(cs) - 1) :                          \* ^\d+\+\d+$
               /\ cs[k] = "+"
               /\ all_in(cs, 1, k - 1, Digits)
               /\ all_in(cs, k + 1, Len(cs), Digits)
         \/ starts_with(cs, <<"b", "e", "s", "t">>)              \* ^best
         \/ starts_with(cs, <<"w", "o", "r", "s", "t">>)         \* ^worst
         \/ \E k \in 2..Len(cs) :                                \* ^\w+\[
               cs[k] = "[" /\ all_in(cs, 1, k - 1, WordChars)

\* os.path.dirname on the paths of the model
dirname(path) ==
    IF path = "C:/dl/videos" THEN "C:/dl"
    ELSE IF path = "C:/nowhere/videos" THEN "C:/nowhere"
    ELSE IF path = "C:/dl/archive.txt" THEN "C:/dl"
    ELSE IF path = "C:/nowhere/archive.txt" THEN "C:/nowhere"
    ELSE ""

\* OptionsValidator.validate_download_options; options.get(...).strip()
\* raises AttributeError when the value under 'custom_format' is None
validate_download_options(opts, env) ==
    LET download_dir == DictGet(opts, "download_dir", None)
        dir_errors ==
            IF ~Truthy(download_dir) THEN <<"download_dir_empty">>
            ELSE IF ~exists(env, dirname(download_dir))
            THEN <<"download_dir_parent_missing">>
            ELSE <<>>
        is_custom == DictGet(opts, "format_choice", None) = "custom"
        custom_value == DictGet(opts, "custom_format", "")
        custom_format == strip_chars(Chars(custom_value))
        format_errors ==
            IF ~is_custom THEN <<>>
            ELSE IF custom_format = <<>> THEN <<"custom_format_empty">>
            ELSE IF ~is_valid_format_spec(custom_format)
            THEN <<"custom_format_invalid">>
            ELSE <<>>
        archive_file == DictGet(opts, "download_archive", None)
        archive_errors ==
            IF Truthy(archive_file) /\ dirname(archive_file) # ""
               /\ ~exists(env, dirname(archive_file))
            THEN <<"archive_dir_missing">>
            ELSE <<>>
    IN  IF is_custom /\ custom_value = None
        THEN Raise("validate_download_options", "AttributeError",
                   "NoneType.strip", <<>>)
        ELSE Ok("validate_download_options",
                dir_errors \o format_errors \o archive_errors)

\* OptionsValidator.validate_cookie_options
validate_cookie_options(opts, env) ==
    LET use_browser == DictGet(opts, "use_browser", TRUE)
        cookie_file == DictGet(opts, "cookie_file", None)
    IN  Ok("validate_cookie_options",
           IF use_browser THEN <<>>
           ELSE IF ~Truthy(cookie_file) THEN <<"cookie_file_not_selected">>
           ELSE IF ~exists(env, cookie_file) THEN <<"cookie_file_missing">>
           ELSE <<>>)

\* OptionsValidator.validate_all_options
validate_all_options(opts, env) ==
    LET download == validate_download_options(opts, env)
        cookie == validate_cookie_options(opts, env)
    IN  IF download.status # "ok"
        THEN [download EXCEPT !.op = "validate_all_options"]
        ELSE Ok("validate_all_options", download.value \o cookie.value)

\* the option dictionaries of the model: every key may be missing, and the
\* string-valued keys may hold None
Absent == "<absent>"
DictOf(pairs) ==
    LET present == {p \in pairs : p[2] # Absent}
    IN  [k \in {p[1] : p \in present} |->
            (CHOOSE p \in present : p[1] = k)[2]]

ValidatorDirs == {Absent, None, "", "C:/dl/videos", "C:/nowhere/videos",
                  "download"}
ValidatorChoices == {Absent, "1080p", "custom"}
ValidatorCustoms == {Absent, None} \cup ValidatorFormats
ValidatorArchives == {Absent, None, "C:/nowhere/archive.txt", "archive.txt"}
ValidatorCookieFiles == {Absent, None, "cookies.txt", "missing.txt"}

ValidatorOptionSets ==
    {DictOf({<<"download_dir", d>>, <<"format_choice", q>>,
             <<"custom_format", cf>>, <<"download_archive", a>>,
             <<"cookie_file", c>>})
        @@ (IF ub = Absent THEN <<>> ELSE ("use_browser" :> (ub = "True")))
        : d \in ValidatorDirs, q \in ValidatorChoices,
          cf \in ValidatorCustoms, a \in ValidatorArchives,
          c \in ValidatorCookieFiles, ub \in {Absent, "True", "False"}}

\* the disk the validator looks at
ValidatorEnviron ==
    [LOCALAPPDATA |-> AppData, paths |-> {"C:/dl", "cookies.txt"}]

ValidateAllOptions ==
    /\ val_result' = validate_all_options(val_options, environ)
    /\ UNCHANGED <<val_options, threadVars, uiVars, fmtVars, builderVars,
                   cookieVars, cookieFileVars, progressVars>>

\* ------------------------------------------------------------------------
\* the units above, before any of them has been called
\* ------------------------------------------------------------------------
IdleBuilder == builder = NewBuilder /\ build_result = NoCall
IdleCookieManager ==
    /\ cookie_manager = NewCookieManager
    /\ last_set_mode = NoSetMode
    /\ cookie_result = NoCall
IdleCookieFile ==
    /\ cookie_file_lines = [readable |-> TRUE, lines |-> <<>>]
    /\ validation_result = NoValidation
IdleProgress == line = <<>> /\ progress_result = NoProgress
IdleValidator == val_options = <<>> /\ val_result = NoCall
DefaultEnviron == environ = ValidatorEnviron

\* ------------------------------------------------------------------------
\* Option sets the mode group of the window produces (get_mode_options)
\* ------------------------------------------------------------------------
ModeOptions(m, maxStart, maxCount) ==
    IF m = "date" THEN {("date_after" :> d) : d \in Dates}
    ELSE IF m = "range"
    THEN {("start_index" :> s) @@ ("count" :> c) :
              s \in 0..maxStart, c \in 1..maxCount}
    ELSE {<<>>}

\* what the cookie group and the output group of the window contribute
\* (get_cookie_options, get_output_options): browser cookies, and the text of
\* the directory field, which may be empty (followed in single mode only, to
\* keep the runs of the window few)
CookieOptions == ("use_browser" :> TRUE) @@ ("browser" :> "Firefox")
OutputOptions(m) ==
    {("download_dir" :> d) :
        d \in IF m = "single" THEN {"", "C:/dl/videos"} ELSE {"C:/dl/videos"}}

\* no DownloadThread exists yet
NoThreads ==
    /\ pc = [t \in Threads |-> "unborn"]
    /\ mode = [t \in Threads |-> "single"]
    /\ options = [t \in Threads |-> <<>>]
    /\ stop_requested = [t \in Threads |-> FALSE]
    /\ current_process = [t \in Threads |-> 0]
    /\ mutex_locked = [t \in Threads |-> FALSE]
    /\ playlist_info = [t \in Threads |-> <<>>]
    /\ entries = [t \in Threads |-> <<>>]
    /\ idx = [t \in Threads |-> 0]
    /\ downloaded_count = [t \in Threads |-> 0]
    /\ procs = [t \in Threads |-> <<>>]
    /\ emitted = [t \in Threads |-> <<>>]
    /\ stop_calls = [t \in Threads |-> 0]
    /\ stop_entry = [t \in Threads |-> 0]

\* DownloadThread.__init__ followed by start(): thread t with mode m, options o
Started(t, m, o) ==
    /\ pc = [u \in Threads |-> IF u = t THEN "run" ELSE "unborn"]
    /\ mode = [u \in Threads |-> IF u = t THEN m ELSE "single"]
    /\ options = [u \in Threads |-> IF u = t THEN o ELSE <<>>]
    /\ stop_requested = [u \in Threads |-> FALSE]
    /\ current_process = [u \in Threads |-> 0]
    /\ mutex_locked = [u \in Threads |-> FALSE]
    /\ playlist_info = [u \in Threads |-> <<>>]
    /\ entries = [u \in Threads |-> <<>>]
    /\ idx = [u \in Threads |-> 0]
    /\ downloaded_count = [u \in Threads |-> 0]
    /\ procs = [u \in Threads |-> <<>>]
    /\ emitted = [u \in Threads |-> <<>>]
    /\ stop_calls = [u \in Threads |-> 0]
    /\ stop_entry = [u \in Threads |-> 0]

\* the window while the run it started is in progress
WindowDownloading(t) ==
    /\ download_thread = t
    /\ download_button = FALSE
    /\ stop_button = TRUE
    /\ status_indicator = "downloading"
    /\ open_dialogs = 0
    /\ ui_wait = 0
    /\ ui_queue = <<>>

WindowIdle ==
    /\ download_thread = 0
    /\ download_button = TRUE
    /\ stop_button = FALSE
    /\ status_indicator = "ready"
    /\ open_dialogs = 0
    /\ ui_wait = 0
    /\ ui_queue = <<>>

NoFmt ==
    /\ fmt_options = <<>>
    /\ fmt_result = NoFmtResult

NoUnits ==
    /\ IdleBuilder /\ IdleCookieManager /\ DefaultEnviron
    /\ IdleCookieFile /\ IdleProgress /\ IdleValidator

\* ------------------------------------------------------------------------
\* Spec: one run of DownloadThread, with request_stop() from outside
\* ------------------------------------------------------------------------
Init ==
    /\ \E m \in Modes : \E o \in ModeOptions(m, MaxStart, MaxCount) :
          Started(1, m, o)
    /\ WindowDownloading(1)
    /\ NoFmt
    /\ NoUnits

Next ==
    \/ Worker(1, MaxEntries, MaxProcs)
    \/ \E p \in 1..Len(procs[1]) : ProcExit(1, p)
    \/ RequestStop(1)

Spec == Init /\ [][Next]_vars

\* SpecLive: the same run, where the worker thread keeps being scheduled and
\* every subprocess that is alive eventually exits
SpecLive ==
    /\ Init
    /\ [][Next]_vars
    /\ WF_vars(Worker(1, MaxEntries, MaxProcs))
    /\ \A p \in 1..MaxProcs : WF_vars(ProcExit(1, p))

\* ------------------------------------------------------------------------
\* SpecFmt: the format resolution functions applied to option dictionaries
\* ------------------------------------------------------------------------
InitFmt ==
    /\ NoThreads
    /\ WindowIdle
    /\ fmt_options \in FmtOptionSets
    /\ fmt_result = NoFmtResult
    /\ NoUnits

NextFmt ==
    \/ CallBuildFormatSpec
    \/ CallWithFormat
    \/ \E m \in Modes : CallDownloadVideo(m)

SpecFmt == InitFmt /\ [][NextFmt]_vars

\* ------------------------------------------------------------------------
\* MainWindow (main_window.py)
\* ------------------------------------------------------------------------
\* QThread.isRunning()
isRunning(t) == pc[t] \notin {"unborn", "finished", "killed"}

\* a click reaches the window only when no modal dialog is open and the
\* window's thread is not blocked in stop_download
WindowAcceptsClicks == open_dialogs = 0 /\ ui_wait = 0

\* MainWindow.reset_download_buttons
reset_download_buttons ==
    /\ download_button' = TRUE
    /\ stop_button' = FALSE

\* MainWindow.start_download with a non-empty URL: the options are collected
\* and a DownloadThread is created and started
StartDownload ==
    /\ WindowAcceptsClicks
    /\ download_button
    /\ \E t \in Threads :
        /\ pc[t] = "unborn"
        /\ \A u \in Threads : u < t => pc[u] # "unborn"
        /\ \E m \in Modes : \E o \in ModeOptions(m, UiMaxStart, UiMaxCount) :
              \E output_options \in OutputOptions(m) :
                  /\ mode' = [mode EXCEPT ![t] = m]
                  /\ options' = [options EXCEPT ![t] =
                                     o @@ CookieOptions @@ output_options]
        /\ pc' = [pc EXCEPT ![t] = "run"]
        /\ download_thread' = t
    /\ download_button' = FALSE
    /\ stop_button' = TRUE
    /\ status_indicator' = "downloading"
    /\ UNCHANGED <<stop_requested, current_process, mutex_locked,
                   playlist_info, entries, idx, downloaded_count, procs,
                   emitted, stop_calls, stop_entry>>
    /\ UNCHANGED <<open_dialogs, ui_wait, ui_queue, fmtVars, unitVars>>

\* MainWindow.stop_download, first part: request_stop() and the wait begins
StopDownloadBegin ==
    /\ WindowAcceptsClicks
    /\ stop_button
    /\ download_thread # 0
    /\ isRunning(download_thread)
    /\ request_stop(download_thread)
    /\ ui_wait' = download_thread
    /\ UNCHANGED <<pc, mode, options, current_process, mutex_locked,
                   playlist_info, entries, idx, downloaded_count, emitted>>
    /\ UNCHANGED <<download_thread, download_button, stop_button,
                   status_indicator, open_dialogs, ui_queue, fmtVars, unitVars>>

\* MainWindow.stop_download, second part: the thread has finished, or the
\* wait timed out and the thread is terminated; then the cancelled state is
\* shown and the buttons are reset
StopDownloadEnd ==
    /\ ui_wait # 0
    /\ pc' = IF isRunning(ui_wait) THEN [pc EXCEPT ![ui_wait] = "killed"]
             ELSE pc
    /\ status_indicator' = "cancelled"
    /\ reset_download_buttons
    /\ download_thread' = 0
    /\ ui_wait' = 0
    /\ UNCHANGED <<mode, options, stop_requested, current_process,
                   mutex_locked, playlist_info, entries, idx,
                   downloaded_count, procs, emitted, stop_calls, stop_entry>>
    /\ UNCHANGED <<open_dialogs, ui_queue, fmtVars, unitVars>>

\* MainWindow.on_download_complete, run when the queued signal is delivered
OnDownloadComplete ==
    /\ ui_wait = 0
    /\ ui_queue # <<>>
    /\ Head(ui_queue)[2].sig = "download_complete"
    /\ ui_queue' = Tail(ui_queue)
    /\ status_indicator' = "completed"
    /\ reset_download_buttons
    /\ download_thread' = 0
    /\ UNCHANGED <<threadVars, open_dialogs, ui_wait, fmtVars, unitVars>>

\* MainWindow.on_download_error up to QMessageBox.critical: the error state
\* is shown and the modal dialog opens
OnDownloadErrorBegin ==
    /\ ui_wait = 0
    /\ ui_queue # <<>>
    /\ Head(ui_queue)[2].sig = "download_error"
    /\ ui_queue' = Tail(ui_queue)
    /\ status_indicator' = "error"
    /\ open_dialogs' = open_dialogs + 1
    /\ UNCHANGED <<threadVars, download_thread, download_button, stop_button,
                   ui_wait, fmtVars, unitVars>>

\* MainWindow.on_download_error after the dialog was dismissed
OnDownloadErrorEnd ==
    /\ ui_wait = 0
    /\ open_dialogs > 0
    /\ open_dialogs' = open_dialogs - 1
    /\ reset_download_buttons
    /\ download_thread' = 0
    /\ UNCHANGED <<threadVars, status_indicator, ui_wait, ui_queue, fmtVars, unitVars>>

\* ------------------------------------------------------------------------
\* SpecUI: the window starts and stops runs
\* ------------------------------------------------------------------------
InitUI ==
    /\ NoThreads
    /\ WindowIdle
    /\ NoFmt
    /\ NoUnits

NextUI ==
    \/ StartDownload
    \/ StopDownloadBegin
    \/ StopDownloadEnd
    \/ OnDownloadComplete
    \/ OnDownloadErrorBegin
    \/ OnDownloadErrorEnd
    \/ \E t \in Threads : Worker(t, UiMaxEntries, UiMaxProcs)
    \/ \E t \in Threads : \E p \in 1..Len(procs[t]) : ProcExit(t, p)

SpecUI == InitUI /\ [][NextUI]_vars

\* ------------------------------------------------------------------------
\* SpecCookie: the cookie manager under every environment
\* ------------------------------------------------------------------------
InitCookie ==
    /\ NoThreads /\ WindowIdle /\ NoFmt
    /\ IdleBuilder /\ IdleCookieFile /\ IdleProgress /\ IdleValidator
    /\ IdleCookieManager
    /\ environ \in Environments

NextCookie ==
    \/ \E browser_name \in BrowserNames : SetBrowserMode(browser_name)
    \/ \E cookie_file_path \in CookiePaths : SetFileMode(cookie_file_path)
    \/ GetCookieArgs

SpecCookie == InitCookie /\ [][NextCookie]_vars

\* ------------------------------------------------------------------------
\* SpecBuilder: the command builder, its methods called in any order
\* ------------------------------------------------------------------------
BuilderEnvironments ==
    {env \in Environments :
        env.LOCALAPPDATA = AppData
        /\ env.paths = {"C:/Local/Mozilla/Firefox/Profiles", "cookies.txt"}}

InitBuilder ==
    /\ NoThreads /\ WindowIdle /\ NoFmt
    /\ IdleCookieManager /\ IdleCookieFile /\ IdleProgress /\ IdleValidator
    /\ IdleBuilder
    /\ environ \in BuilderEnvironments

NextBuilder ==
    \/ BuilderReset
    \/ \E cm \in CookieManagers : WithCookies(cm)
    \/ \E f \in BuilderFormats : WithFormat(f)
    \/ \E d \in BuilderDirs : \E tmpl \in BuilderTemplates :
          \E a \in BuilderArchives : WithOutput(d, tmpl, a)
    \/ WithBasicOptions
    \/ WithInfoOnly
    \/ WithFormatList
    \/ \E s \in BuilderStarts : \E e \in BuilderEnds :
          \E d \in BuilderDates : WithPlaylistOptions(s, e, d)
    \/ \E url \in BuilderUrls : WithUrl(url)
    \/ Build
    \/ \E url \in BuilderUrls : \E o \in BuilderOptionSets :
          BuildDownloadCommand(url, o, cookie_manager)

SpecBuilder == InitBuilder /\ [][NextBuilder]_vars

\* ------------------------------------------------------------------------
\* SpecCookieFile: validate_cookie_file applied to cookie files
\* ------------------------------------------------------------------------
InitCookieFile ==
    /\ NoThreads /\ WindowIdle /\ NoFmt
    /\ IdleBuilder /\ IdleCookieManager /\ DefaultEnviron
    /\ IdleProgress /\ IdleValidator
    /\ cookie_file_lines \in CookieFiles
    /\ validation_result = NoValidation

NextCookieFile == ValidateCookieFile

SpecCookieFile == InitCookieFile /\ [][NextCookieFile]_vars

\* ------------------------------------------------------------------------
\* SpecProgress: _parse_progress_line applied to output lines
\* ------------------------------------------------------------------------
InitProgress ==
    /\ NoThreads /\ WindowIdle /\ NoFmt
    /\ IdleBuilder /\ IdleCookieManager /\ DefaultEnviron
    /\ IdleCookieFile /\ IdleValidator
    /\ line \in ProgressLines
    /\ progress_result = NoProgress

NextProgress == ParseProgressLine

SpecProgress == InitProgress /\ [][NextProgress]_vars

\* ------------------------------------------------------------------------
\* SpecValidator: validate_all_options applied to option dictionaries
\* ------------------------------------------------------------------------
InitValidator ==
    /\ NoThreads /\ WindowIdle /\ NoFmt
    /\ IdleBuilder /\ IdleCookieManager /\ DefaultEnviron
    /\ IdleCookieFile /\ IdleProgress
    /\ val_options \in ValidatorOptionSets
    /\ val_result = NoCall

NextValidator == ValidateAllOptions

SpecValidator == InitValidator /\ [][NextValidator]_vars

\* ------------------------------------------------------------------------
\* DownloadThread: the command line of each subprocess it spawns
\* (download_thread.py, utils.py)
\* ------------------------------------------------------------------------
\* DownloadThread._setup_cookie_manager, run by __init__: neither
\* set_browser_mode nor set_file_mode can raise, so its except clause is
\* never entered
setup_cookie_manager(opts) ==
    IF DictGet(opts, "use_browser", TRUE)
    THEN set_browser_mode(NewCookieManager,
                          DictGet(opts, "browser", "Firefox"))
    ELSE LET cookie_file == DictGet(opts, "cookie_file", None)
         IN  IF Truthy(cookie_file)
             THEN set_file_mode(NewCookieManager, cookie_file)
             ELSE NewCookieManager

\* DownloadThread.get_cookie_args: the arguments of the cookie manager, and
\* the Firefox arguments when the cookie manager raises
thread_get_cookie_args(cm, env) ==
    LET r == get_cookie_args(cm, env)
    IN  IF r.status = "ok" THEN r.value
        ELSE <<"--cookies-from-browser", "firefox">>

\* utils.build_yt_dlp_command (additional_args is never passed)
build_yt_dlp_command(base_args, cookie_args, url) ==
    <<"yt-dlp">> \o base_args
    \o (IF cookie_args # <<>> THEN cookie_args ELSE <<>>)
    \o (IF Truthy(url) THEN <<url>> ELSE <<>>)

\* utils.normalize_url on the URLs of the model
normalize_url(url) ==
    IF url = "-abc" THEN "https://www.youtube.com/watch?v=abc"
    ELSE IF url = "abc" THEN "https://www.youtube.com/watch?v=abc"
    ELSE url

\* DownloadThread.get_playlist_info: the command it runs
get_playlist_info_command(url, cm, env) ==
    build_yt_dlp_command(<<"-J", "--flat-playlist">>,
                         thread_get_cookie_args(cm, env), url)

\* DownloadThread.get_video_info: the command it runs
get_video_info_command(url, cm, env) ==
    build_yt_dlp_command(
        <<"-F", "--verbose", "--no-check-certificates", "--no-playlist",
          "--extractor-retries", ToString(3),
          "--socket-timeout", ToString(30)>>,
        thread_get_cookie_args(cm, env), url)

\* DownloadThread.download_video up to the Popen: the command it spawns, or
\* the exception os.makedirs raises for a directory that cannot be created
download_video_command(url, opts, format_choice, cm, env) ==
    LET format_spec == download_video_format_spec(opts, format_choice)
        download_dir == DictGet(opts, "download_dir", "./download")
        output_template ==
            IF Truthy(DictGet(opts, "output_template", None))
            THEN download_dir \o "/" \o opts["output_template"]
            ELSE download_dir \o "/%(title)s.%(ext)s"
        base_args ==
            <<"-f", format_spec, "--no-check-certificates", "--no-playlist",
              "--extractor-retries", ToString(3),
              "--socket-timeout", ToString(30),
              "--user-agent", "Mozilla/5.0">>
            \o <<"-o", output_template>>
            \o (IF Truthy(DictGet(opts, "download_archive", None))
                THEN <<"--download-archive", opts["download_archive"]>>
                ELSE <<>>)
    IN  IF ~exists(env, download_dir) /\ download_dir = ""
        THEN Raise("download_video", "FileNotFoundError", "makedirs",
                   <<download_dir>>)
        ELSE [Ok("download_video",
                 build_yt_dlp_command(base_args,
                                      thread_get_cookie_args(cm, env),
                                      normalize_url(url)))
                 EXCEPT !.args = <<normalize_url(url)>>]

\* the URL the window hands to the run, and the URL the playlist loops make
\* of an entry's id
RunUrls == {"https://youtu.be/x", "-abc"}
EntryUrls == {"https://www.youtube.com/watch?v=abc"}

\* the URLs get_video_info and download_video are called with in a run
VideoUrls(t) == IF mode[t] = "single" THEN RunUrls ELSE EntryUrls

\* what the cookie, output and quality groups of the window can contribute
CommandCookieOptions ==
    {("use_browser" :> TRUE) @@ ("browser" :> b) : b \in {"Firefox", "Chrome"}}
    \cup {("use_browser" :> FALSE) @@ ("cookie_file" :> f) :
              f \in {"", "cookies.txt", "missing.txt"}}
CommandOutputOptions ==
    {("download_dir" :> d) @@ tmpl @@ archive :
        d \in {"", "C:/dl"},
        tmpl \in {<<>>, ("output_template" :> "%(id)s.%(ext)s")},
        archive \in {<<>>, ("download_archive" :> "archive.txt")}}
CommandQualityOptions ==
    {("format_choice" :> "1080p") @@ ("format_type" :> "auto")
         @@ ("audio_codec" :> "best"),
     ("format_choice" :> "custom") @@ ("format_type" :> "auto")
         @@ ("audio_codec" :> "best") @@ ("custom_format" :> "137+140")}

CommandUnchanged ==
    UNCHANGED <<threadVars, uiVars, fmtVars, builder, cookie_manager,
                last_set_mode, cookie_result, cookieFileVars, progressVars,
                validatorVars>>

\* the run of thread t spawns its listing fetch
SpawnPlaylistCommand(t) ==
    /\ mode[t] \in {"date", "range"}
    /\ \E url \in RunUrls :
          build_result' =
              [Ok("get_playlist_info",
                  get_playlist_info_command(url, cookie_manager, environ))
                  EXCEPT !.args = <<url>>]
    /\ UNCHANGED environ
    /\ CommandUnchanged

\* the run of thread t spawns an info fetch
SpawnInfoCommand(t) ==
    /\ \E url \in VideoUrls(t) :
          build_result' =
              [Ok("get_video_info",
                  get_video_info_command(url, cookie_manager, environ))
                  EXCEPT !.args = <<url>>]
    /\ UNCHANGED environ
    /\ CommandUnchanged

\* the run of thread t builds the command of a download and spawns it
SpawnDownloadCommand(t) ==
    /\ \E url \in VideoUrls(t) :
          LET r == download_video_command(
                       url, options[t],
                       IF mode[t] = "single"
                       THEN single_format_choice(options[t])
                       ELSE IF mode[t] = "date"
                       THEN date_format_choice(options[t])
                       ELSE range_format_choice(options[t]),
                       cookie_manager, environ)
          IN  /\ build_result' = r
              /\ environ' =
                     IF r.status = "ok"
                     THEN [environ EXCEPT !.paths =
                              @ \cup {DictGet(options[t], "download_dir",
                                              "./download")}]
                     ELSE environ
    /\ CommandUnchanged

\* ------------------------------------------------------------------------
\* SpecCommands: the commands of a run, for every option set of the window
\* and every environment
\* ------------------------------------------------------------------------
InitCommands ==
    /\ \E m \in Modes : \E o \in ModeOptions(m, 0, 1) :
          \E c \in CommandCookieOptions : \E out \in CommandOutputOptions :
              \E q \in CommandQualityOptions :
                  /\ Started(1, m, o @@ q @@ c @@ out)
                  /\ cookie_manager = setup_cookie_manager(c)
    /\ WindowDownloading(1)
    /\ NoFmt
    /\ IdleBuilder /\ IdleCookieFile /\ IdleProgress /\ IdleValidator
    /\ last_set_mode = NoSetMode
    /\ cookie_result = NoCall
    /\ environ \in Environments

NextCommands ==
    \/ SpawnPlaylistCommand(1)
    \/ SpawnInfoCommand(1)
    \/ SpawnDownloadCommand(1)

SpecCommands == InitCommands /\ [][NextCommands]_vars

\* ------------------------------------------------------------------------
\* Properties
\* ------------------------------------------------------------------------
\* listing positions of the entries whose info fetch was started, in order
RECURSIVE EntriesOf(_, _)
EntriesOf(ps, kind) ==
    IF ps = <<>> THEN <<>>
    ELSE IF Head(ps).kind = kind
    THEN <<Head(ps).entry>> \o EntriesOf(Tail(ps), kind)
    ELSE EntriesOf(Tail(ps), kind)

InfoEntries(t) == EntriesOf(procs[t], "info")
DownloadEntries(t) == EntriesOf(procs[t], "download")

IsPrefix(a, b) == Len(a) <= Len(b) /\ \A k \in 1..Len(a) : a[k] = b[k]

\* the listing the run decoded: its number of entries, -1 when the listing
\* fetch has not returned a decodable listing with an 'entries' key
ListingSize(t) ==
    IF procs[t] # <<>> /\ procs[t][1].kind = "playlist"
       /\ procs[t][1].stdout.json = "ok"
    THEN procs[t][1].stdout.n
    ELSE -1

\* C1: in date or range mode, once request_stop() has been called, no
\* subprocess is started for an entry that comes after the entry being
\* processed at the moment of the stop request.
C1_NoLaterEntryAfterStop ==
    \A t \in Threads :
        (mode[t] \in {"date", "range"} /\ stop_requested[t]
         /\ stop_entry[t] >= 1) =>
            \A p \in 1..Len(procs[t]) :
                ~(procs[t][p].after_stop /\ procs[t][p].entry > stop_entry[t])

\* C2: whenever request_stop() is called while a subprocess of the run is
\* alive (streamed download, or blocking listing / info fetch), that
\* subprocess is asked to terminate.
C2_StopTerminatesAliveProcess ==
    [][\A t \in Threads :
          stop_calls'[t] > stop_calls[t] =>
              \A p \in 1..Len(procs[t]) :
                  procs[t][p].alive => procs'[t][p].terminated]_vars

\* C3: every run emits exactly one terminal event, download_complete or
\* download_error: never two, and one once the run has finished.
C3_ExactlyOneTerminalEvent ==
    \A t \in Threads :
        /\ Len(emitted[t]) <= 1
        /\ pc[t] = "finished" => Len(emitted[t]) = 1

\* C4: at most one DownloadThread run is executing at any time; the window
\* starts no new thread while the thread of an earlier run is still running.
C4_AtMostOneRunActive ==
    Cardinality({t \in Threads : isRunning(t)}) <= 1

\* C5: in range mode with a listing of n entries, 0-based start index s < n
\* and count c, the entries processed are exactly the listing positions
\* s+1 .. min(s+c, n), in that order (a prefix of them while the run is in
\* progress), and the run reports no index error when s+c exceeds n.
C5_RangeExpected(t) ==
    LET s == options[t]["start_index"]
        c == options[t]["count"]
        n == ListingSize(t)
        last == IF s + c <= n THEN s + c ELSE n
    IN  [k \in 1..(last - s) |-> s + k]

C5_RangeSliceProcessed ==
    \A t \in Threads :
        (mode[t] = "range" /\ pc[t] # "unborn"
         /\ options[t]["start_index"] < ListingSize(t)) =>
            /\ IsPrefix(InfoEntries(t), C5_RangeExpected(t))
            /\ pc[t] = "finished" => InfoEntries(t) = C5_RangeExpected(t)
            /\ \A k \in 1..Len(emitted[t]) :
                   emitted[t][k].text # "start_index_out_of_range"

C5_Witness ==
    /\ mode[1] = "range" /\ pc[1] = "finished"
    /\ options[1]["start_index"] = 1
    /\ options[1]["count"] = MaxCount
    /\ ListingSize(1) = 3
    /\ options[1]["start_index"] + options[1]["count"] > ListingSize(1)
    /\ InfoEntries(1) = <<2, 3>>

\* the run of thread t has reported the index error for index s and total n
C6_IndexErrorReported(t, s, n) ==
    \E k \in 1..Len(emitted[t]) :
        /\ emitted[t][k].sig = "download_error"
        /\ emitted[t][k].text = "start_index_out_of_range"
        /\ emitted[t][k].args = <<s + 1, n>>

\* C6 as stated: in range mode with start index s >= n, n the number of
\* entries of the listing, the run fails with an error event carrying the
\* 1-based index s+1 and the total n, and no info fetch or download starts.
C6_Original ==
    \A t \in Threads :
        (mode[t] = "range" /\ pc[t] \in {"run_complete", "finished"}
         /\ ListingSize(t) >= 0
         /\ options[t]["start_index"] >= ListingSize(t)) =>
            /\ C6_IndexErrorReported(t, options[t]["start_index"],
                                     ListingSize(t))
            /\ InfoEntries(t) = <<>>
            /\ DownloadEntries(t) = <<>>

\* C6 amended: in range mode with a listing of n >= 1 entries and start
\* index s >= n, the run fails with an error event carrying the 1-based
\* index s+1 and the total n, and no info fetch or download starts; an
\* empty listing is reported as an unavailable playlist instead.
C6_IndexOutOfRange ==
    \A t \in Threads :
        (mode[t] = "range" /\ pc[t] \in {"run_complete", "finished"}
         /\ ListingSize(t) >= 0
         /\ options[t]["start_index"] >= ListingSize(t)) =>
            /\ InfoEntries(t) = <<>>
            /\ DownloadEntries(t) = <<>>
            /\ IF ListingSize(t) >= 1
               THEN C6_IndexErrorReported(t, options[t]["start_index"],
                                          ListingSize(t))
               ELSE \E k \in 1..Len(emitted[t]) :
                        /\ emitted[t][k].sig = "download_error"
                        /\ emitted[t][k].text = "playlist_unavailable"

C6_Witness ==
    /\ mode[1] = "range" /\ pc[1] = "finished"
    /\ ListingSize(1) = 2
    /\ options[1]["start_index"] = 3
    /\ C6_IndexErrorReported(1, 3, 2)
    /\ Len(procs[1]) = 1

\* C7: in date mode, for every entry whose info fetch succeeds, a download
\* is started if and only if the entry's upload date is lexically >= the
\* date-after bound.
C7_DateFilter ==
    [][\A t \in Threads :
          (mode[t] = "date" /\ pc[t] = "gvi_wait"
           /\ pc'[t] \in {"dv_spawn", "gvi_spawn", "run_complete"}
           /\ LastProc(t).returncode = 0) =>
              (pc'[t] = "dv_spawn" <=>
                  StrGE(LastProc(t).upload_date,
                        options[t]["date_after"]))]_vars

\* C8: with quality = custom and a non-empty custom format string f
\* (container preference not audio-only), the -f argument of the download
\* command the orchestrator spawns is exactly f, in every mode.
C8_CustomFormatVerbatim ==
    (/\ fmt_result.op = "download_video"
     /\ fmt_options["format_choice"] = "custom"
     /\ fmt_options["format_type"] # "audio_only"
     /\ "custom_format" \in DOMAIN fmt_options
     /\ fmt_options["custom_format"] # "") =>
        fmt_result.value = fmt_options["custom_format"]

\* the selector table as recorded: quality x container -> video part
C9_GoldenVideo ==
    ("8K" :> [auto |-> "313", h264 |-> "bestvideo[ext=mp4]",
              vp9 |-> "313", av1 |-> "401"]) @@
    ("4K" :> [auto |-> "313", h264 |-> "bestvideo[ext=mp4]",
              vp9 |-> "313", av1 |-> "401"]) @@
    ("1440p" :> [auto |-> "271", h264 |-> "bestvideo[ext=mp4]",
                 vp9 |-> "271", av1 |-> "400"]) @@
    ("1080p" :> [auto |-> "248", h264 |-> "137", vp9 |-> "248",
                 av1 |-> "399"]) @@
    ("720p" :> [auto |-> "247", h264 |-> "136", vp9 |-> "247",
                av1 |-> "398"]) @@
    ("480p" :> [auto |-> "244", h264 |-> "135", vp9 |-> "244",
                av1 |-> "397"]) @@
    ("360p" :> [auto |-> "243", h264 |-> "134", vp9 |-> "243",
                av1 |-> "396"]) @@
    ("240p" :> [auto |-> "242", h264 |-> "133", vp9 |-> "242",
                av1 |-> "395"])

C9_Column(ft) ==
    IF ft = "auto" THEN "auto"
    ELSE IF ft = "MP4 (H.264)" THEN "h264"
    ELSE IF ft = "WebM (VP9)" THEN "vp9"
    ELSE "av1"

C9_AudioSelector(ac) ==
    IF ac = "Opus" THEN "251/250/249"
    ELSE IF ac = "AAC" THEN "140"
    ELSE "bestaudio"

C9_Expected(q, ft, ac) ==
    LET video == C9_GoldenVideo[q][C9_Column(ft)]
    IN  IF video = "bestvideo[ext=mp4]"
        THEN video \o "+" \o C9_AudioSelector(ac) \o "/best[ext=mp4]"
        ELSE video \o "+" \o C9_AudioSelector(ac)

\* C9: for every quality of the table, every container preference other
\* than audio-only and every audio codec, build_format_spec returns
\* "<id>+<audio selector>" with the id of the column the container selects
\* (auto: first non-empty of VP9, AV1, H.264), or the bracket-filtered
\* bestvideo expression when that column is empty; an unknown quality key
\* yields "248+251".
C9_GoldenTable ==
    (/\ fmt_result.op = "build_format_spec"
     /\ fmt_options["format_type"] # "audio_only"
     /\ fmt_options["audio_codec"] \in {"best", "Opus", "AAC"}) =>
        /\ fmt_options["format_choice"] \in DOMAIN C9_GoldenVideo =>
              fmt_result.value = C9_Expected(fmt_options["format_choice"],
                                             fmt_options["format_type"],
                                             fmt_options["audio_codec"])
        /\ fmt_options["format_choice"] = "144p" =>
              fmt_result.value = "248+251"

C9_Witness ==
    /\ fmt_result.op = "build_format_spec"
    /\ fmt_options["format_choice"] = "1440p"
    /\ fmt_options["format_type"] = "MP4 (H.264)"
    /\ fmt_options["audio_codec"] = "AAC"
    /\ fmt_result.value = "bestvideo[ext=mp4]+140/best[ext=mp4]"

\* C10: whenever the container preference is audio-only, the selector is
\* the audio-codec mapping (unknown codec: bestaudio) for every quality,
\* custom with a custom format string included, in build_format_spec, in
\* with_format and in the -f value of download_video.
C10_AudioOnlyFirst ==
    (fmt_result.op # "none" /\ fmt_options["format_type"] = "audio_only") =>
        fmt_result.value = C9_AudioSelector(fmt_options["audio_codec"])

\* C11: build() fails with the missing-URL error whenever the URL is None
\* or the empty string, whatever the other fragments hold, and a failed
\* build leaves every accumulated fragment unchanged.
C11_BuildRequiresUrl ==
    [][(build_result'.op = "build" /\ builder.url \in {None, ""}) =>
          /\ build_result'.status = "ValueError"
          /\ build_result'.message = "url_empty"
          /\ builder' = builder]_vars

C11_Witness ==
    /\ build_result.op = "build"
    /\ build_result.status = "ValueError"
    /\ builder.url = ""
    /\ builder.format_args # <<>>
    /\ builder.misc_args # <<>>
    /\ builder.cookie_args # <<>>
    /\ builder.output_args # <<>>

\* C12: every command build() returns starts with "yt-dlp" and ends with
\* the URL, and in between come the format, misc, cookie and output
\* fragments in that order, whatever the order of the with_* calls.
C12_CommandOrder ==
    (build_result.op \in {"build", "build_download_command"}
     /\ build_result.status = "ok") =>
        LET command == build_result.value
        IN  /\ Head(command) = "yt-dlp"
            /\ command[Len(command)] = builder.url
            /\ command = <<"yt-dlp">> \o builder.format_args
                             \o builder.misc_args \o builder.cookie_args
                             \o builder.output_args \o <<builder.url>>
            /\ builder.format_args # <<>> => command[2] = "-f"
            /\ builder.output_args # <<>> =>
                  command[Len(command) - Len(builder.output_args)] = "-o"

C12_Witness ==
    /\ build_result.op = "build"
    /\ build_result.status = "ok"
    /\ build_result.value =
           <<"yt-dlp", "-f", "137+140", "-J", "--flat-playlist",
             "--cookies", "cookies.txt", "-o", "C:/dl/%(title)s.%(ext)s",
             "https://youtu.be/x">>

\* the recorded tables of C13: internal key and profile directory of each
\* browser, and the normalised form of each cookie path
C13_Key(browser_name) ==
    IF browser_name = "Chrome" THEN "chrome"
    ELSE IF browser_name = "Microsoft Edge" THEN "edge"
    ELSE "firefox"

C13_ProfileDir(key) ==
    IF key = "chrome" THEN "C:/Local/Google/Chrome/User Data"
    ELSE IF key = "edge" THEN "C:/Local/Microsoft/Edge/User Data"
    ELSE "C:/Local/Mozilla/Firefox/Profiles"

C13_Normalized(path) ==
    IF path \in {"./cookies.txt", "tmp/../cookies.txt"} THEN "cookies.txt"
    ELSE path

\* C13: get_cookie_args() returns ["--cookies-from-browser", key] in
\* browser mode and ["--cookies", normalised path] in file mode; it raises
\* in browser mode when the application-data root is undetermined or the
\* profile directory is missing, and in file mode when no path is set or
\* the path does not exist; the mode is the one of the most recent
\* set_browser_mode / set_file_mode call (browser mode, firefox, when there
\* was none).
C13_CookieArgs ==
    cookie_result.op = "get_cookie_args" =>
        IF last_set_mode.call = "set_file_mode"
        THEN IF last_set_mode.arg \in {None, ""}
                \/ C13_Normalized(last_set_mode.arg) \notin environ.paths
             THEN cookie_result.status = "Exception"
             ELSE /\ cookie_result.status = "ok"
                  /\ cookie_result.value =
                         <<"--cookies", C13_Normalized(last_set_mode.arg)>>
        ELSE LET key == IF last_set_mode.call = "none" THEN "firefox"
                        ELSE C13_Key(last_set_mode.arg)
             IN  IF environ.LOCALAPPDATA \in {None, ""}
                    \/ C13_ProfileDir(key) \notin environ.paths
                 THEN cookie_result.status = "Exception"
                 ELSE /\ cookie_result.status = "ok"
                      /\ cookie_result.value =
                             <<"--cookies-from-browser", key>>

C13_Witness ==
    /\ cookie_result.op = "get_cookie_args"
    /\ cookie_result.status = "ok"
    /\ last_set_mode = [call |-> "set_file_mode", arg |-> "tmp/../cookies.txt"]
    /\ cookie_manager.browser = "chrome"
    /\ cookie_result.value = <<"--cookies", "cookies.txt">>

\* positions of the lines of the file that satisfy a predicate on the raw
\* line
C14_Count(lines, S) == Cardinality({k \in 1..Len(lines) : lines[k] \in S})

\* C14: is_valid holds exactly when total_cookies > 0 and
\* youtube_cookies_count > 0; an empty file gives is_valid = false, the
\* empty-file issue and all counts zero; comment lines and rows with fewer
\* than 7 tab-separated fields are not counted, complete rows are; a row
\* with expiry 0 is never counted as expired.
C14_ValidationReport ==
    validation_result.op = "validate_cookie_file" =>
        LET r == validation_result.result
            lines == cookie_file_lines.lines
            comments == {HeaderLine, CommentLine, HttpOnlyRow}
            complete == {SidRow, ExpiredRow, FutureRow, TextExpiryRow}
            at_least_7 == {l \in FileLines : Len(l) >= 7} \ comments
            nonzero_expiry == {l \in at_least_7 : l[5] # "0"}
        IN  /\ r.is_valid <=>
                  (r.total_cookies > 0 /\ r.youtube_cookies_count > 0)
            /\ (cookie_file_lines.readable /\ lines = <<>>) =>
                  /\ ~r.is_valid
                  /\ r.issues = <<"empty_file">>
                  /\ r.total_cookies = 0
                  /\ r.youtube_cookies_count = 0
                  /\ r.expired_cookies = 0
                  /\ r.important_cookies = {}
            /\ r.total_cookies <= C14_Count(lines, at_least_7)
            /\ cookie_file_lines.readable =>
                  r.total_cookies >= C14_Count(lines, complete)
            /\ r.expired_cookies <= C14_Count(lines, nonzero_expiry)
            /\ cookie_file_lines.readable =>
                  r.expired_cookies >= C14_Count(lines, {ExpiredRow})

C14_Witness ==
    /\ validation_result.op = "validate_cookie_file"
    /\ cookie_file_lines.lines = <<HeaderLine, SidRow, ShortRow>>
    /\ validation_result.result.is_valid
    /\ validation_result.result.total_cookies = 1
    /\ validation_result.result.youtube_cookies_count = 1
    /\ validation_result.result.important_cookies = {"SID"}
    /\ validation_result.result.expired_cookies = 0
    /\ validation_result.result.issues = <<>>

\* the tokens of C15, as the words of a line
C15_HasPercentage(ln) ==
    \E k \in 1..Len(ln) : ln[k] \in {"42.5%", "100%", "110%", "4294967296%"}
C15_HasSpeed(ln) ==
    \E k \in 1..(Len(ln) - 1) :
        ln[k] \in {"at", "format"} /\ ln[k + 1] = "1.50MiB/s"
C15_HasEta(ln) ==
    \E k \in 1..(Len(ln) - 1) :
        ln[k] = "ETA" /\ ln[k + 1] \in {"00:07", "1.50MiB/s", "42.5%",
                                        "100%", "110%", "4294967296%",
                                        "10.00MiB"}
C15_Rank(sig) ==
    IF sig = "download_progress" THEN 1
    ELSE IF sig = "download_speed" THEN 2
    ELSE 3

\* C15: for a line with the "[download]" marker and a "%",
\* _parse_progress_line emits a percentage, a speed and an ETA event, each
\* only if its token is on the line, in that order (and each of them when
\* the percentage fits the signal); for any other line it emits nothing;
\* it never raises.
C15_ProgressEvents ==
    progress_result.op = "_parse_progress_line" =>
        LET events == progress_result.events
            sigs == {events[k].sig : k \in 1..Len(events)}
            download_line ==
                /\ \E k \in 1..Len(line) : line[k] = "[download]"
                /\ \E k \in 1..Len(line) :
                      line[k] \in {"42.5%", "100%", "110%",
                                   "4294967296%", "%(title)s"}
        IN  /\ ~progress_result.raised
            /\ ~download_line => events = <<>>
            /\ \A i, j \in 1..Len(events) :
                  i < j => C15_Rank(events[i].sig) < C15_Rank(events[j].sig)
            /\ "download_progress" \in sigs => C15_HasPercentage(line)
            /\ "download_speed" \in sigs => C15_HasSpeed(line)
            /\ "eta_update" \in sigs => C15_HasEta(line)
            /\ (download_line
                /\ \A k \in 1..Len(line) : line[k] # "4294967296%") =>
                  /\ C15_HasPercentage(line) => "download_progress" \in sigs
                  /\ C15_HasSpeed(line) => "download_speed" \in sigs
                  /\ C15_HasEta(line) => "eta_update" \in sigs

C15_Witness ==
    /\ progress_result.op = "_parse_progress_line"
    /\ line = SampleLine
    /\ progress_result.events =
           <<ProgressSignal("download_progress", "42"),
             ProgressSignal("download_speed", "1.50MiB/s"),
             ProgressSignal("eta_update", "00:07")>>

\* the custom format strings of the model that have an accepted shape:
\* numeric id, id+id, best..., worst..., word followed by '['
C16_AcceptedFormats ==
    {"137", " 137 ", "137+140", "bestvideo", "worst", "bv[h]"}

\* C16: validate_all_options never raises and returns a list for every
\* option dictionary, keys missing or holding None included; with
\* quality = custom it reports a custom-format error exactly when the custom
\* format is empty or has none of the accepted shapes.
C16_NeverRaises ==
    val_result.op = "validate_all_options" =>
        /\ val_result.status = "ok"
        /\ DictGet(val_options, "format_choice", None) = "custom" =>
              ((\E k \in 1..Len(val_result.value) :
                    val_result.value[k] \in {"custom_format_empty",
                                             "custom_format_invalid"})
               <=> DictGet(val_options, "custom_format", "")
                       \notin C16_AcceptedFormats)

\* C17: no run is started with options for which validate_all_options
\* returns errors: for such options start_download creates and starts no
\* DownloadThread, and no subprocess is spawned.
C17_NoRunWithInvalidOptions ==
    \A t \in Threads :
        validate_all_options(options[t], environ).value # <<>> =>
            pc[t] = "unborn" /\ procs[t] = <<>>

\* C18: no subprocess (listing fetch, info fetch, download) is spawned
\* once request_stop() has been called.
C18_NoSpawnAfterStop ==
    \A t \in Threads : \A p \in 1..Len(procs[t]) : ~procs[t][p].after_stop

\* C19: the mutex is always released: whenever the worker is between two
\* of its steps the mutex is free, so a call of request_stop() or
\* is_stop_requested() can acquire it and return.
C19_MutexReleased ==
    \A t \in Threads : ~mutex_locked[t]

\* C20: the process handle is non-null only while a streamed download is
\* in flight; once download_video has returned it is null.
C20_HandleOnlyInFlight ==
    \A t \in Threads :
        pc[t] \notin {"dv_loop", "dv_read", "dv_exit"} =>
            current_process[t] = 0

\* C21: after request_stop() has been called, the run emits no
\* download_error event, neither for the operation in progress at the
\* time of the stop nor for any later one.
C21_NoErrorAfterStop ==
    [][\A t \in Threads :
          stop_requested[t] =>
              \A k \in (Len(emitted[t]) + 1)..Len(emitted'[t]) :
                  emitted'[t][k].sig # "download_error"]_vars

\* the worker has left the read loop of a download through the cancel
\* branch (lines 254-257): the subprocess of that download is still alive
\* although the loop is over, and the only other exit needs poll() to
\* report that the process has ended
C22_StopObserved(t) ==
    \E p \in 1..Len(procs[t]) :
        /\ procs[t][p].kind = "download"
        /\ procs[t][p].alive
        /\ p < Len(procs[t]) \/ pc[t] \notin {"dv_loop", "dv_read", "dv_exit"}

\* C22: a run in which a stop request was observed ends as cancelled: it
\* emits no download_complete, and the cancelled state the window shows
\* after stop_download is never overwritten by the completed state.
C22_CancelledRunNotCompleted ==
    [][/\ \A t \in Threads :
              C22_StopObserved(t) =>
                  \A k \in (Len(emitted[t]) + 1)..Len(emitted'[t]) :
                      emitted'[t][k].sig # "download_complete"
       /\ status_indicator = "cancelled" => status_indicator' # "completed"]_vars

\* the download of the entry the loop is at has succeeded: its subprocess
\* was spawned, has exited, and its exit code is 0
C23_DownloadSucceeded(t) ==
    /\ procs[t] # <<>>
    /\ LastProc(t).kind = "download"
    /\ LastProc(t).entry = CurEntry(t)
    /\ ~LastProc(t).alive
    /\ LastProc(t).returncode = 0

\* C23: in date and range mode the inter-item delay is taken only after a
\* successful download and only when a further entry remains: none after
\* the last entry of the listing or slice, none after a failed download.
C23_DelayOnlyBetweenSuccesses ==
    \A t \in Threads :
        pc[t] = "sleep" =>
            /\ idx[t] + 1 < Len(entries[t])
            /\ C23_DownloadSucceeded(t)

\* C24: in date and range mode the failure of one item's download (a
\* non-zero exit code, or an exception while building or running the
\* command) is reported as a progress-log message only, never as a
\* download_error event, and the remaining entries are still processed.
C24_ItemFailureNotAnError ==
    \A t \in Threads :
        mode[t] \in {"date", "range"} =>
            /\ \A k \in 1..Len(emitted[t]) :
                   emitted[t][k].text \notin {"download_failed",
                                              "download_exception"}
            /\ (pc[t] = "finished" /\ entries[t] # <<>>) =>
                   InfoEntries(t) = entries[t]

\* the flat listing of the run could not be obtained: the listing fetch has
\* returned, and it failed, or its output could not be decoded, or the
\* decoded listing has no entries
C25_ListingUnavailable(t) ==
    /\ mode[t] \in {"date", "range"}
    /\ pc[t] \notin {"unborn", "run", "pl_spawn", "pl_wait"}
    /\ ListingSize(t) <= 0

\* C25: in date and range mode, when the flat playlist listing cannot be
\* obtained (subprocess failure, JSON decode failure, or a listing without
\* entries), the run fails with an error event and no per-video info fetch
\* or download is started.
C25_ListingFailureIsFatal ==
    \A t \in Threads :
        C25_ListingUnavailable(t) =>
            /\ \E k \in 1..Len(emitted[t]) :
                   /\ emitted[t][k].sig = "download_error"
                   /\ emitted[t][k].text = "playlist_unavailable"
            /\ Len(procs[t]) = 1
            /\ InfoEntries(t) = <<>>
            /\ DownloadEntries(t) = <<>>

C25_Witness ==
    /\ mode[1] = "date" /\ pc[1] = "finished"
    /\ procs[1][1].kind = "playlist"
    /\ procs[1][1].returncode = 0
    /\ procs[1][1].stdout.json = "invalid"
    /\ emitted[1][1] = download_error("playlist_unavailable", <<>>)
    /\ Len(procs[1]) = 1

\* the group a flag of a command belongs to: 1 format, 2 diagnostic/misc,
\* 3 cookie, 4 output; 0 for a token that is no flag (the value of one)
C26_Group(token) ==
    IF token = "-f" THEN 1
    ELSE IF token \in {"-J", "--flat-playlist", "-F", "--verbose",
                       "--no-check-certificates", "--no-playlist",
                       "--extractor-retries", "--socket-timeout",
                       "--user-agent"} THEN 2
    ELSE IF token \in {"--cookies-from-browser", "--cookies"} THEN 3
    ELSE IF token \in {"-o", "--download-archive"} THEN 4
    ELSE 0

\* C26: every argv the orchestrator spawns (playlist fetch, info fetch,
\* download) starts with the tool name, ends with the URL, and orders its
\* flags format, then diagnostic/misc, then cookie, then output; in
\* particular the cookie flags of the download command precede its -o and
\* --download-archive flags.
C26_SpawnedCommandOrder ==
    (build_result.op \in {"get_playlist_info", "get_video_info",
                          "download_video"}
     /\ build_result.status = "ok") =>
        LET command == build_result.value
        IN  /\ Head(command) = "yt-dlp"
            /\ command[Len(command)] = build_result.args[1]
            /\ \A i, j \in 2..(Len(command) - 1) :
                   (i < j /\ C26_Group(command[i]) # 0
                    /\ C26_Group(command[j]) # 0) =>
                       C26_Group(command[i]) <= C26_Group(command[j])

\* the cookie arguments of the source the user selected in the window
C27_Selected(opts) ==
    IF opts["use_browser"]
    THEN <<"--cookies-from-browser",
           IF opts["browser"] = "Chrome" THEN "chrome" ELSE "firefox">>
    ELSE <<"--cookies", opts["cookie_file"]>>

\* the selected source is misconfigured: file mode with an empty or
\* nonexistent path, browser mode without the profile directory
C27_Misconfigured(opts, env) ==
    IF opts["use_browser"]
    THEN \/ env.LOCALAPPDATA \in {None, ""}
         \/ (IF opts["browser"] = "Chrome"
             THEN "C:/Local/Google/Chrome/User Data"
             ELSE "C:/Local/Mozilla/Firefox/Profiles") \notin env.paths
    ELSE opts["cookie_file"] = "" \/ opts["cookie_file"] \notin env.paths

\* C27: if the selected cookie source is misconfigured, the affected
\* operation of the run fails, and no subprocess is spawned with a cookie
\* source other than the one the user selected.
C27_NoOtherCookieSource ==
    (build_result.op \in {"get_playlist_info", "get_video_info",
                          "download_video"}
     /\ build_result.status = "ok") =>
        LET command == build_result.value
        IN  /\ ~C27_Misconfigured(options[1], environ)
            /\ \A i \in 1..(Len(command) - 1) :
                   command[i] \in {"--cookies-from-browser", "--cookies"} =>
                       <<command[i], command[i + 1]>>
                           = C27_Selected(options[1])

\* C28: within a run, playlist entries are handled strictly one at a time
\* in listing/slice order: each selected entry gets at most one info fetch
\* and at most one download subprocess, and no subprocess for a later entry
\* is started while a subprocess for an earlier entry is still alive.
C28_OneEntryAtATime ==
    \A t \in Threads :
        mode[t] \in {"date", "range"} =>
            \A p, q \in 1..Len(procs[t]) :
                (p < q /\ procs[t][p].entry >= 1) =>
                    /\ procs[t][p].entry <= procs[t][q].entry
                    /\ procs[t][p].kind = procs[t][q].kind =>
                           procs[t][p].entry < procs[t][q].entry
                    /\ procs[t][p].entry < procs[t][q].entry =>
                           ~procs[t][p].alive

\* the percentages 0..100 as the decimal strings the signal carries
C29_Percentages == {ToString(n) : n \in 0..100}

\* C29: every percentage value emitted on the download_progress event lies
\* in the range 0..100, for every output line the subprocess can produce.
C29_PercentageInRange ==
    progress_result.op = "_parse_progress_line" =>
        \A k \in 1..Len(progress_result.events) :
            progress_result.events[k].sig = "download_progress" =>
                progress_result.events[k].value \in C29_Percentages

\* C30: assuming every spawned subprocess eventually exits (on its own or
\* after being terminated), every started run eventually finishes: in all
\* three modes and under any timing of request_stop(), the worker reaches
\* the end of run() and emits a terminal event.
C30_RunTerminates ==
    <>(/\ pc[1] = "finished"
       /\ \E k \in 1..Len(emitted[1]) :
              emitted[1][k].sig \in {"download_complete", "download_error"})

====
